---- MODULE Spec2Model ----
(***************************************************************************)
(* Bowliverse v13 analysis core: the anchor-event detector, the biomech    *)
(* stage with its risk calculators and aggregator, the action matrix and   *)
(* the analyze route that chains the stages.                               *)
(*                                                                         *)
(* Numbers: angles are integer degrees, normalised image coordinates are   *)
(* integers in units of 0.01, confidences and visibilities are integers in *)
(* units of 0.01 (0..100).                                                 *)
(***************************************************************************)
EXTENDS Integers, Sequences, FiniteSets, TLC

VARIABLES
    pc,        \* position of the running call / of the analyze route
    arg,       \* argument of the function under analysis
    ret,       \* its return value
    frames,    \* ctx.pose.frames
    events,    \* ctx.events
    biomech,   \* ctx.biomech
    decision,  \* ctx.decision.action_matrix
    risk,      \* ctx.risk
    cues,      \* ctx.cues.list
    ctxRef,    \* the route's local variable ctx: "ctx" or "None"
    raised     \* the exception that left the route, or "none"

vars == <<pc, arg, ret, frames, events, biomech, decision, risk, cues, ctxRef, raised>>
fnVars == <<arg, ret>>
ctxVars == <<frames, events, biomech, decision, risk, cues, ctxRef, raised>>

\* Python's None: as a string where the value is otherwise a string, as a
\* record where it is otherwise an object or a dict.
None == "None"
Null == [null |-> TRUE]

\* ------------------------------------------------------------------
\* Small helpers over integers and sequences
\* ------------------------------------------------------------------
Min2(a, b) == IF a <= b THEN a ELSE b
Max2(a, b) == IF a >= b THEN a ELSE b
Abs(a) == IF a < 0 THEN -a ELSE a

RECURSIVE SeqsUpTo(_, _)
SeqsUpTo(S, n) ==
    IF n = 0 THEN {<<>>}
    ELSE LET shorter == SeqsUpTo(S, n - 1)
         IN shorter \cup {Append(s, x) : s \in {t \in shorter : Len(t) = n - 1}, x \in S}

SeqsOfLen(S, n) == {s \in SeqsUpTo(S, n) : Len(s) = n}

\* ------------------------------------------------------------------
\* State of a context on which no stage has run
\* ------------------------------------------------------------------
NoEvents == [release |-> Null, uah |-> Null, ffc |-> Null, bfc |-> Null, error |-> None]
NoBiomech ==
    [elbow |-> Null, hip |-> Null, shoulder |-> Null, shoulder_hip |-> Null,
     backfoot |-> Null, error |-> None]
EmptyDict == [k \in {} |-> None]

CtxIdle ==
    /\ frames = <<>>
    /\ events = NoEvents
    /\ biomech = NoBiomech
    /\ decision = EmptyDict
    /\ risk = Null
    /\ cues = <<>>
    /\ ctxRef = "ctx"
    /\ raised = "none"

\* ==================================================================
\* risk/aggregator.py
\* ==================================================================
MaxFindings == 4

Upper(s) ==
    CASE s = "high" -> "HIGH"
      [] s = "medium" -> "MEDIUM"
      [] s = "low" -> "LOW"
      [] s = "skipped" -> "SKIPPED"
      [] s = "unknown" -> "UNKNOWN"
      [] OTHER -> s

\* The loop of aggregate_risks from entry i on, with the running value of
\* `overall`; an early return at the first HIGH.
RECURSIVE AggLoop(_, _, _)
AggLoop(formatted, i, overall) ==
    IF i > Len(formatted) THEN overall
    ELSE LET r == formatted[i]
         IN IF DOMAIN r = {} \/ "level" \notin DOMAIN r
            THEN AggLoop(formatted, i + 1, overall)
            ELSE LET level == Upper(r.level)
                 IN IF level = "HIGH" THEN "High"
                    ELSE IF level = "MEDIUM"
                         THEN AggLoop(formatted, i + 1, "Medium")
                         ELSE AggLoop(formatted, i + 1, overall)

\* A plausible slip: return at the first finding that is not LOW, so that a
\* MEDIUM or SKIPPED entry in front hides a later HIGH.
RECURSIVE AggLoopFirstHit(_, _, _)
AggLoopFirstHit(formatted, i, overall) ==
    IF i > Len(formatted) THEN overall
    ELSE LET r == formatted[i]
         IN IF DOMAIN r = {} \/ "level" \notin DOMAIN r
            THEN AggLoopFirstHit(formatted, i + 1, overall)
            ELSE LET level == Upper(r.level)
                 IN IF level = "HIGH" THEN "High"
                    ELSE IF level \in {"MEDIUM", "SKIPPED"} THEN "Medium"
                    ELSE AggLoopFirstHit(formatted, i + 1, overall)

aggregate_risks_firsthit(formatted) == AggLoopFirstHit(formatted, 1, "Low")

\* A plausible slip: `overall` follows the last graded finding, so that a
\* LOW entry after a MEDIUM one lowers it again.
RECURSIVE AggLoopLastWins(_, _, _)
AggLoopLastWins(formatted, i, overall) ==
    IF i > Len(formatted) THEN overall
    ELSE LET r == formatted[i]
         IN IF DOMAIN r = {} \/ "level" \notin DOMAIN r
            THEN AggLoopLastWins(formatted, i + 1, overall)
            ELSE LET level == Upper(r.level)
                 IN IF level = "HIGH" THEN "High"
                    ELSE IF level = "MEDIUM" THEN AggLoopLastWins(formatted, i + 1, "Medium")
                    ELSE IF level = "LOW" THEN AggLoopLastWins(formatted, i + 1, "Low")
                    ELSE AggLoopLastWins(formatted, i + 1, overall)

aggregate_risks_lastwins(formatted) == AggLoopLastWins(formatted, 1, "Low")

aggregate_risks(formatted) == AggLoop(formatted, 1, "Low")

Levels == {"LOW", "MEDIUM", "HIGH", "SKIPPED", "UNKNOWN"}

\* Breakdown entries handed to the aggregator: a finding with a level, a
\* finding without the "level" key, and the empty dict.
AggEntries ==
    {[id |-> "R", level |-> l] : l \in Levels} \cup {[id |-> "R"], EmptyDict}

InitAgg ==
    /\ pc = "call"
    /\ arg \in SeqsUpTo(AggEntries, MaxFindings)
    /\ ret = None
    /\ CtxIdle

CallAggregate ==
    /\ pc = "call"
    /\ ret' = aggregate_risks(arg)
    /\ pc' = "done"
    /\ UNCHANGED <<arg, ctxVars>>

NextAgg == CallAggregate

SpecAgg == InitAgg /\ [][NextAgg]_vars

HasLevel(fs, l) ==
    \E i \in 1..Len(fs) : "level" \in DOMAIN fs[i] /\ fs[i].level = l

\* C3: aggregate_risks returns High if any finding is HIGH, else Medium if
\* any is MEDIUM, else Low; SKIPPED, UNKNOWN, level-less and empty entries
\* never change the result, and the result depends only on which levels
\* occur, not on their order.
C3_AggregateBySeverity ==
    pc = "done" =>
        ret = IF HasLevel(arg, "HIGH") THEN "High"
              ELSE IF HasLevel(arg, "MEDIUM") THEN "Medium"
              ELSE "Low"

\* A MEDIUM and a SKIPPED finding in front of a HIGH one: the result is High.
C3_Witness ==
    /\ pc = "done"
    /\ Len(arg) >= 3
    /\ "level" \in DOMAIN arg[1] /\ arg[1].level = "SKIPPED"
    /\ "level" \in DOMAIN arg[2] /\ arg[2].level = "MEDIUM"
    /\ "level" \in DOMAIN arg[3] /\ arg[3].level = "HIGH"
    /\ ret = "High"

\* ==================================================================
\* pipeline/action_matrix.py
\* ==================================================================
ACTION_MATRIX ==
    (<<"SIDE_ON", "HIGH", "CLOSED">> :> <<"ELASTIC_LOAD", "OPTIMAL">>) @@
    (<<"SIDE_ON", "MODERATE", "CLOSED">> :> <<"CONTROLLED_LOAD", "GOOD">>) @@
    (<<"FRONT_ON", "LOW", "OPEN">> :> <<"FRONT_ON_COLLAPSE", "HIGH_RISK">>) @@
    (<<"FRONT_ON", "MODERATE", "OPEN">> :> <<"FRONT_ON_FORCE", "RISK">>) @@
    (<<"SIDE_ON", "LOW", "OPEN">> :> <<"MIXED_ACTION", "HIGH_RISK">>) @@
    (<<"TRANSITIONAL", "LOW", "OPEN">> :> <<"MIXED_ACTION", "HIGH_RISK">>) @@
    (<<"TRANSITIONAL", "MODERATE", "OPEN">> :> <<"MIXED_ACTION", "RISK">>) @@
    (<<"TRANSITIONAL", "MODERATE", "NEUTRAL">> :> <<"CONTROLLED_ACTION", "OK">>) @@
    (<<"SIDE_ON", "LOW", "NEUTRAL">> :> <<"LOW_SEPARATION", "SUBOPTIMAL">>) @@
    (<<"SIDE_ON", "LOW", "CLOSED">> :> <<"SAFE_BUT_WEAK", "OK">>) @@
    (<<"FRONT_ON", "HIGH", "NEUTRAL">> :> <<"FORCED_ROTATION", "RISK">>)

\* A primitive of ctx.biomech is None or a dict; dict.get("zone") is None
\* when the key is absent.
ZoneOf(prim) ==
    IF prim = Null THEN None
    ELSE IF "zone" \in DOMAIN prim THEN prim.zone ELSE None

\* Python truthiness of a zone value: None and "" are falsy.
Falsy(z) == z = None \/ z = ""

ActionState(action, quality, hz, sz, bz) ==
    [action |-> action, quality |-> quality,
     inputs |-> [hip |-> hz, shoulder_hip |-> sz, backfoot |-> bz]]

\* A plausible slip: degrade only when all three zones are missing.
action_matrix_run_all_missing(bm) ==
    LET hz == ZoneOf(bm.hip)
        sz == ZoneOf(bm.shoulder_hip)
        bz == ZoneOf(bm.backfoot)
        key == <<hz, sz, bz>>
    IN IF Falsy(hz) /\ Falsy(sz) /\ Falsy(bz)
       THEN ActionState("INSUFFICIENT_DATA", "UNKNOWN", hz, sz, bz)
       ELSE IF key \in DOMAIN ACTION_MATRIX
            THEN ActionState(ACTION_MATRIX[key][1], ACTION_MATRIX[key][2], hz, sz, bz)
            ELSE ActionState("UNCLASSIFIED_ACTION", "UNKNOWN", hz, sz, bz)

\* The value run() stores in ctx.decision.action_matrix for a given ctx.biomech.
action_matrix_run(bm) ==
    LET hz == ZoneOf(bm.hip)
        sz == ZoneOf(bm.shoulder_hip)
        bz == ZoneOf(bm.backfoot)
        key == <<hz, sz, bz>>
    IN IF Falsy(hz) \/ Falsy(sz) \/ Falsy(bz)
       THEN ActionState("INSUFFICIENT_DATA", "UNKNOWN", hz, sz, bz)
       ELSE IF key \in DOMAIN ACTION_MATRIX
            THEN ActionState(ACTION_MATRIX[key][1], ACTION_MATRIX[key][2], hz, sz, bz)
            ELSE ActionState("UNCLASSIFIED_ACTION", "UNKNOWN", hz, sz, bz)

HipZones == {"SIDE_ON", "TRANSITIONAL", "FRONT_ON"}
SepZones == {"LOW", "MODERATE", "HIGH"}
FootZones == {"CLOSED", "NEUTRAL", "OPEN"}

\* The primitives a stage can have left in ctx.biomech: None, a dict with a
\* zone, or a dict whose zone key is missing.
PrimsOver(Z) == {Null, [angle_deg |-> 0]} \cup {[zone |-> z] : z \in Z}

InitAction ==
    /\ pc = "call"
    /\ arg = None
    /\ ret = None
    /\ frames = <<>>
    /\ events = NoEvents
    /\ \E h \in PrimsOver(HipZones), s \in PrimsOver(SepZones), b \in PrimsOver(FootZones) :
           biomech = [NoBiomech EXCEPT !.hip = h, !.shoulder_hip = s, !.backfoot = b]
    /\ decision = EmptyDict
    /\ risk = Null
    /\ cues = <<>>
    /\ ctxRef = "ctx"
    /\ raised = "none"

CallActionMatrix ==
    /\ pc = "call"
    /\ decision' = action_matrix_run(biomech)
    /\ pc' = "done"
    /\ UNCHANGED <<arg, ret, frames, events, biomech, risk, cues, ctxRef, raised>>

NextAction == CallActionMatrix

SpecAction == InitAction /\ [][NextAction]_vars

ZoneTriple == <<ZoneOf(biomech.hip), ZoneOf(biomech.shoulder_hip), ZoneOf(biomech.backfoot)>>
ZoneMissing == \E i \in 1..3 : ZoneTriple[i] = None

\* C9: action_matrix.run stores INSUFFICIENT_DATA/UNKNOWN exactly when a zone
\* is missing, the ACTION_MATRIX entry exactly when the complete triple is a
\* key of the table, UNCLASSIFIED_ACTION/UNKNOWN for every other complete
\* triple; it raises nothing and echoes the three input zones.
C9_ActionMatrixTotal ==
    pc = "done" =>
        /\ raised = "none"
        /\ decision.inputs = [hip |-> ZoneTriple[1], shoulder_hip |-> ZoneTriple[2],
                              backfoot |-> ZoneTriple[3]]
        /\ (ZoneMissing <=> decision.action = "INSUFFICIENT_DATA")
        /\ (ZoneMissing => decision.quality = "UNKNOWN")
        /\ (~ZoneMissing /\ ZoneTriple \in DOMAIN ACTION_MATRIX) =>
               <<decision.action, decision.quality>> = ACTION_MATRIX[ZoneTriple]
        /\ (~ZoneMissing /\ ZoneTriple \notin DOMAIN ACTION_MATRIX) =>
               <<decision.action, decision.quality>> = <<"UNCLASSIFIED_ACTION", "UNKNOWN">>

\* One missing zone beside two present ones: the classifier degrades.
C9_Witness ==
    /\ pc = "done"
    /\ ZoneTriple = <<"SIDE_ON", None, "CLOSED">>
    /\ decision.action = "INSUFFICIENT_DATA"

\* ==================================================================
\* pipeline/events_stage.py
\* ==================================================================
\* A pose frame is a record: lm (landmarks is not None), vis (visibility of
\* its landmarks), conf (frame confidence), ext (external elbow angle of the
\* bowling arm), elev (shoulder y minus elbow y), rot (shoulder x minus hip
\* x), ankle (ankle y of the mapper's primary side).  Frame indices are the
\* code's, counted from 0: frame f is pf[f + 1].

\* _smooth, scaled by 4: the kernel [0.25, 0.5, 0.25] of np.convolve in
\* mode "same" pads with zeros; a list shorter than 3 is copied.
Smooth4(vals) ==
    LET n == Len(vals)
    IN IF n < 3 THEN [i \in 1..n |-> 4 * vals[i]]
       ELSE [i \in 1..n |->
                (IF i > 1 THEN vals[i - 1] ELSE 0) + 2 * vals[i]
                + (IF i < n THEN vals[i + 1] ELSE 0)]

\* np.argmax / np.argmin: the first index (from 0) of the extreme value.
ArgMax(v) ==
    (CHOOSE i \in 1..Len(v) :
        /\ \A j \in 1..Len(v) : v[j] <= v[i]
        /\ \A j \in 1..(i - 1) : v[j] < v[i]) - 1

ArgMin(v) ==
    (CHOOSE i \in 1..Len(v) :
        /\ \A j \in 1..Len(v) : v[j] >= v[i]
        /\ \A j \in 1..(i - 1) : v[j] > v[i]) - 1

\* np.gradient with unit spacing, scaled by 2: central differences inside,
\* one-sided differences at both ends.
Grad2(v) ==
    LET n == Len(v)
    IN [i \in 1..n |->
           IF i = 1 THEN 2 * (v[2] - v[1])
           ELSE IF i = n THEN 2 * (v[n] - v[n - 1])
           ELSE v[i + 1] - v[i - 1]]

Prefix(v, k) == SubSeq(v, 1, k)

RECURSIVE SortedSeq(_)
SortedSeq(S) ==
    IF S = {} THEN <<>>
    ELSE LET m == CHOOSE x \in S : \A y \in S : x <= y
         IN <<m>> \o SortedSeq(S \ {m})

\* int(np.median(list of indices)).
MedianInt(S) ==
    LET q == SortedSeq(S)
        n == Len(q)
    IN IF n % 2 = 1 THEN q[(n + 1) \div 2]
       ELSE (q[n \div 2] + q[n \div 2 + 1]) \div 2

Median3(a, b, c) ==
    IF (a <= b /\ b <= c) \/ (c <= b /\ b <= a) THEN b
    ELSE IF (b <= a /\ a <= c) \/ (c <= a /\ a <= b) THEN a
    ELSE c

Clip(x, lo, hi) == Max2(lo, Min2(x, hi))

\* float(max(0.0, min(1.0, confidence))) * 100.0
ConfPct(pf, idx) == Clip(pf[idx + 1].conf, 0, 100)

Event(f, c) == [frame |-> f, conf |-> c]

MIN_VIS == 15

_is_valid_frame(f) == f.lm /\ f.vis >= MIN_VIS

\* External angle per frame, None replaced by 0.
ExtCleaned(pf) == [i \in 1..Len(pf) |-> IF pf[i].lm THEN pf[i].ext ELSE 0]

\* A plausible slip: take the peak of the raw curve, without smoothing.
detect_release_raw(pf) ==
    LET idx == ArgMax(ExtCleaned(pf))
    IN Event(idx, ConfPct(pf, idx))

detect_release(pf) ==
    LET idx == ArgMax(Smooth4(ExtCleaned(pf)))
    IN Event(idx, ConfPct(pf, idx))

_flexion_list(pf) ==
    Smooth4([i \in 1..Len(pf) |-> IF pf[i].lm THEN 180 - pf[i].ext ELSE 0])

_elevation_list(pf) ==
    Smooth4([i \in 1..Len(pf) |-> IF pf[i].lm THEN pf[i].elev ELSE 0])

\* The index (from 1) of the last frame with landmarks before i, or 0.
PrevPresent(pf, i) ==
    IF \E j \in 1..(i - 1) : pf[j].lm
    THEN CHOOSE j \in 1..(i - 1) : pf[j].lm /\ \A k \in (j + 1)..(i - 1) : ~pf[k].lm
    ELSE 0

_rotation_list(pf) ==
    Smooth4([i \in 1..Len(pf) |->
                IF ~pf[i].lm \/ PrevPresent(pf, i) = 0 THEN 0
                ELSE pf[i].rot - pf[PrevPresent(pf, i)].rot])

\* Indices (from 0) whose velocity exceeds 0.01; the curve is 4 times the
\* smoothed signal in units of 0.01 and Grad2 doubles once more.
RiseCandidates(curve4, rel_idx) ==
    LET g == Grad2(Prefix(curve4, rel_idx))
    IN {i - 1 : i \in {k \in 1..rel_idx : g[k] > 8}}

\* A plausible slip: the combined index is returned without the correction
\* window around the flexion minimum.
detect_uah_c2_unclipped(pf, rel_idx) ==
    IF rel_idx <= 2 THEN Null
    ELSE LET flex_idx == ArgMin(Prefix(_flexion_list(pf), rel_idx))
             ec == RiseCandidates(_elevation_list(pf), rel_idx)
             rc == RiseCandidates(_rotation_list(pf), rel_idx)
             elev_idx == IF ec # {} THEN MedianInt(ec) ELSE flex_idx
             rot_idx == IF rc # {} THEN MedianInt(rc) ELSE flex_idx
             raw_idx == Median3(flex_idx, elev_idx, rot_idx)
         IN Event(raw_idx, ConfPct(pf, raw_idx))

detect_uah_c2(pf, rel_idx) ==
    IF rel_idx <= 2 THEN Null
    ELSE LET flex_idx == ArgMin(Prefix(_flexion_list(pf), rel_idx))
             ec == RiseCandidates(_elevation_list(pf), rel_idx)
             rc == RiseCandidates(_rotation_list(pf), rel_idx)
             elev_idx == IF ec # {} THEN MedianInt(ec) ELSE flex_idx
             rot_idx == IF rc # {} THEN MedianInt(rc) ELSE flex_idx
             raw_idx == Median3(flex_idx, elev_idx, rot_idx)
             uah_idx == Clip(raw_idx, flex_idx - 8, flex_idx + 8)
         IN Event(uah_idx, ConfPct(pf, uah_idx))

\* Ankle heights of the frames before k, 1.0 for a frame without landmarks.
AnkleYs(pf, k) == [i \in 1..k |-> IF pf[i].lm THEN pf[i].ankle ELSE 100]

\* detect_ffc is called with rel_idx >= 1 here; with rel_idx = 0 np.argmin
\* of the empty list raises, which events_run handles.
detect_ffc(pf, rel_idx) ==
    LET idx == ArgMin(Smooth4(AnkleYs(pf, rel_idx)))
    IN Event(idx, ConfPct(pf, idx))

detect_bfc(pf, ffc_idx) ==
    IF ffc_idx <= 1 THEN Null
    ELSE LET idx == ArgMin(Smooth4(AnkleYs(pf, ffc_idx)))
         IN Event(idx, ConfPct(pf, idx))

\* events_stage.run: the value of ctx.events it leaves for ctx.pose.frames = all.
events_run(all) ==
    IF Len(all) < 5
    THEN [NoEvents EXCEPT !.error = "Insufficient pose frames"]
    ELSE LET filtered == SelectSeq(all, _is_valid_frame)
             pf == IF Len(filtered) >= 5 THEN filtered ELSE all
             release == detect_release(pf)
             uah0 == detect_uah_c2(pf, release.frame)
             uah1 == IF uah0 = Null THEN Event(Max2(0, release.frame - 5), 10) ELSE uah0
             uah == IF uah1.frame > release.frame
                    THEN [uah1 EXCEPT !.frame = Max2(0, release.frame - 3)]
                    ELSE uah1
         IN IF release.frame = 0
            THEN [NoEvents EXCEPT !.error = "attempt to get argmin of an empty sequence"]
            ELSE LET ffc == detect_ffc(pf, release.frame)
                     bfc0 == detect_bfc(pf, ffc.frame)
                     bfc == IF bfc0 = Null THEN Event(Max2(0, ffc.frame - 5), 10) ELSE bfc0
                 IN [release |-> release, uah |-> uah, ffc |-> ffc, bfc |-> bfc,
                     error |-> None]

\* ------------------------------------------------------------------
\* detect_release on its own
\* ------------------------------------------------------------------
MaxRelLen == 5
ScenarioLen == 40
ScenarioPeak == 28

RelFrame(e) == [lm |-> TRUE, ext |-> e, conf |-> 90]
MissingFrame == [lm |-> FALSE, ext |-> 0, conf |-> 0]

\* Input shapes of ScenarioLen frames with the raw peak at ScenarioPeak: a
\* tent (clean motion) and a one-frame spike whose neighbours are lost.
TentSeq(top, slope) ==
    [i \in 1..ScenarioLen |-> RelFrame(top - slope * Abs(i - 1 - ScenarioPeak))]
SpikeSeq(top, base) ==
    [i \in 1..ScenarioLen |->
        IF i - 1 = ScenarioPeak THEN RelFrame(top)
        ELSE IF Abs(i - 1 - ScenarioPeak) = 1 THEN MissingFrame
        ELSE RelFrame(base)]

ReleaseInputs ==
    (SeqsUpTo({MissingFrame, RelFrame(90), RelFrame(100)}, MaxRelLen) \ {<<>>})
    \cup {TentSeq(top, slope) : top \in {150, 170}, slope \in {1, 2, 3}}
    \cup {SpikeSeq(top, base) : top \in {170, 175}, base \in {120, 160}}

InitRelease ==
    /\ pc = "call"
    /\ arg \in ReleaseInputs
    /\ ret = Null
    /\ CtxIdle

CallDetectRelease ==
    /\ pc = "call"
    /\ ret' = detect_release(arg)
    /\ pc' = "done"
    /\ UNCHANGED <<arg, ctxVars>>

NextRelease == CallDetectRelease

SpecRelease == InitRelease /\ [][NextRelease]_vars

\* The external angle of frame f (from 0) of the argument, 0 without landmarks.
RawExt(f) == IF arg[f + 1].lm THEN arg[f + 1].ext ELSE 0
\* Four times the smoothed external angle of frame f, written out.
SmoothedExt4(f) ==
    IF Len(arg) < 3 THEN 4 * RawExt(f)
    ELSE (IF f > 0 THEN RawExt(f - 1) ELSE 0) + 2 * RawExt(f)
         + (IF f < Len(arg) - 1 THEN RawExt(f + 1) ELSE 0)
FrameIdx == 0..(Len(arg) - 1)

\* C10 as stated: detect_release returns a frame whose external elbow angle
\* is the maximum over all frames; with the unique peak at frame 28 of 40
\* frames, Release.frame = 28.
C10_ReleaseIsRawPeak ==
    pc = "done" => \A f \in FrameIdx : RawExt(f) <= RawExt(ret.frame)

\* C10 amended: detect_release returns the first frame at which the smoothed
\* external angle (kernel 0.25, 0.5, 0.25, zero beyond the ends, frames
\* without landmarks counting as 0) is maximal; when the smoothed angle has
\* its unique peak at frame 28 of a 40-frame sequence, Release.frame = 28.
C10_ReleaseIsSmoothedPeak ==
    pc = "done" =>
        /\ ret.frame \in FrameIdx
        /\ \A f \in FrameIdx : SmoothedExt4(f) <= SmoothedExt4(ret.frame)
        /\ \A f \in FrameIdx : f < ret.frame => SmoothedExt4(f) < SmoothedExt4(ret.frame)
        /\ (Len(arg) = ScenarioLen
            /\ \A f \in FrameIdx \ {ScenarioPeak} :
                   SmoothedExt4(f) < SmoothedExt4(ScenarioPeak))
           => ret.frame = ScenarioPeak

\* The 40-frame scenario with a clean peak: Release is frame 28.
C10_Witness ==
    /\ pc = "done"
    /\ Len(arg) = ScenarioLen
    /\ \A f \in FrameIdx \ {ScenarioPeak} : RawExt(f) < RawExt(ScenarioPeak)
    /\ \A f \in FrameIdx \ {ScenarioPeak} : SmoothedExt4(f) < SmoothedExt4(ScenarioPeak)
    /\ ret.frame = ScenarioPeak

\* ------------------------------------------------------------------
\* events_stage.run on its own
\* ------------------------------------------------------------------
MinEvLen == 5
MaxEvLen == 6

\* Signal shapes over n frames: a one-frame pulse at frame p (from 0), a step
\* at frame p, a ramp.
Pulse(n, p, base, top) == [i \in 1..n |-> IF i - 1 = p THEN top ELSE base]
StepAt(n, p, before, after) == [i \in 1..n |-> IF i - 1 >= p THEN after ELSE before]
Ramp(n, slope) == [i \in 1..n |-> slope * (i - 1)]

\* Frames from per-signal series; frame m (if any) has no landmarks, frame v
\* (if any) is tracked with low visibility.
EvFrames(n, ext, elev, rot, ankle, m, v) ==
    [i \in 1..n |->
        [lm |-> i - 1 # m,
         vis |-> IF i - 1 = v THEN 10 ELSE 90,
         conf |-> IF i - 1 = m THEN 0 ELSE IF i - 1 = v THEN 10 ELSE 90,
         ext |-> ext[i], elev |-> elev[i], rot |-> rot[i], ankle |-> ankle[i]]]

\* Signal families: the elbow opens as a one-frame pulse or as a tent around
\* frame p; the ankle dips for one frame or along a V around frame q.
Tent(n, p, top, slope) == [i \in 1..n |-> Max2(0, top - slope * Abs(i - 1 - p))]
Vee(n, q, slope) == [i \in 1..n |-> Min2(100, slope * Abs(i - 1 - q))]
ExtShapes(n) ==
    {Pulse(n, p, 90, 150) : p \in 0..(n - 1)} \cup {Tent(n, p, 170, 40) : p \in 0..(n - 1)}
AnkleShapes(n) ==
    {Pulse(n, q, 80, 50) : q \in 0..(n - 1)} \cup {Vee(n, q, 50) : q \in 0..(n - 1)}

BlankFrame == [lm |-> FALSE, vis |-> 0, conf |-> 0, ext |-> 0, elev |-> 0, rot |-> 0, ankle |-> 0]

\* A full delivery of LongEvLen frames: the elbow opens just before the end
\* of the clip, at once or along a slope.
LongEvLen == 40
LongExtShapes(n) == {Pulse(n, n - 2, 90, 150), Tent(n, n - 2, 170, 4), Tent(n, n - 2, 170, 40)}

InitEvents ==
    /\ pc = "events"
    /\ arg = None
    /\ ret = None
    /\ \/ \E n \in MinEvLen..MaxEvLen :
            \E ext \in ExtShapes(n), ankle \in AnkleShapes(n), e \in {0, 2, 4}, r \in {0, 3},
               m \in -1..(n - 1), v \in -1..(n - 1) :
                frames = EvFrames(n, ext, StepAt(n, e, 0, 10), Ramp(n, r), ankle, m, v)
       \/ \E ext \in LongExtShapes(LongEvLen), e \in {0, LongEvLen - 6}, r \in {0, 3} :
            frames = EvFrames(LongEvLen, ext, StepAt(LongEvLen, e, 0, 10), Ramp(LongEvLen, r),
                              Vee(LongEvLen, LongEvLen - 10, 50), -1, -1)
       \/ frames = [i \in 1..(MinEvLen - 1) |-> BlankFrame]
    /\ events = NoEvents
    /\ biomech = NoBiomech
    /\ decision = EmptyDict
    /\ risk = Null
    /\ cues = <<>>
    /\ ctxRef = "ctx"
    /\ raised = "none"

\* ctx = events_stage(ctx): run catches every exception and returns ctx.
RunEventsStage(next) ==
    /\ pc = "events"
    /\ events' = events_run(frames)
    /\ pc' = next
    /\ UNCHANGED <<arg, ret, frames, biomech, decision, risk, cues, ctxRef, raised>>

EventsStageOnly == RunEventsStage("done")

NextEvents == EventsStageOnly

SpecEvents == InitEvents /\ [][NextEvents]_vars

AllAnchors ==
    /\ events.error = None
    /\ events.bfc # Null /\ events.ffc # Null /\ events.uah # Null /\ events.release # Null

\* C1: whenever events_stage.run completes with error = None and stores all
\* four anchors, BFC.frame < FFC.frame < UAH.frame < Release.frame.
C1_AnchorsOrdered ==
    (pc # "events" /\ AllAnchors) =>
        /\ events.bfc.frame < events.ffc.frame
        /\ events.ffc.frame < events.uah.frame
        /\ events.uah.frame < events.release.frame

\* ==================================================================
\* risk/signal_quality.py, risk/front_knee_collapse.py
\* ==================================================================
\* signal_quality in hundredths (0, 40, 100).  `unit` is the number of model
\* units that make 1.0 of the signal, so that the jitter tolerance 0.15 is
\* compared exactly: mean(|diff|) > 0.15.
RECURSIVE SumRange(_, _, _)
SumRange(v, lo, hi) ==
    IF lo > hi THEN 0
    ELSE IF lo = hi THEN v[lo]
    ELSE LET mid == (lo + hi) \div 2
         IN SumRange(v, lo, mid) + SumRange(v, mid + 1, hi)

\* A function over 1..n as an explicit tuple.
AsTuple(f) == SubSeq(f, 1, Len(f))

SumAbsDiffs(values) ==
    LET diffs == AsTuple([i \in 1..(Len(values) - 1) |-> Abs(values[i + 1] - values[i])])
    IN SumRange(diffs, 1, Len(diffs))

signal_quality(values, unit) ==
    IF Len(values) < 6 THEN 0
    ELSE IF 100 * SumAbsDiffs(values) > 15 * unit * (Len(values) - 1) THEN 40
    ELSE 100

BRACE_ANGLE == 100
MEDIUM_DELTA == 25
HIGH_DELTA == 45

Skipped(id, reasons) == [risk_id |-> id, level |-> "SKIPPED", guardrails_applied |-> reasons]

\* list.index: the first position (from 1) of a in v.
ListIndex(v, a) == CHOOSE i \in 1..Len(v) : v[i] = a /\ \A j \in 1..(i - 1) : v[j] # a

\* min(values, key=...): the first position whose key is minimal.
MinPosByKey(keys) ==
    CHOOSE i \in 1..Len(keys) :
        /\ \A j \in 1..Len(keys) : keys[j] >= keys[i]
        /\ \A j \in 1..(i - 1) : keys[j] > keys[i]

\* min(v[from:]) for a position from (counted from 1).
MinFrom(v, from) ==
    LET S == {v[i] : i \in from..Len(v)}
    IN CHOOSE x \in S : \A y \in S : x <= y

\* The frames (from 0) of the window that have landmarks, in order.
ValidIn(pf, lo, hi) ==
    SelectSeq([k \in 1..Max2(0, hi - lo) |-> lo + k - 1], LAMBDA f : pf[f + 1].lm)

KneeLevel(angle_rel, delta) ==
    IF angle_rel >= BRACE_ANGLE THEN "LOW"
    ELSE IF delta >= HIGH_DELTA THEN "HIGH"
    ELSE IF delta >= MEDIUM_DELTA THEN "MEDIUM"
    ELSE "LOW"

FrontKneeCollapse_compute(pf, ffc, release) ==
    IF release <= ffc THEN Skipped("FRONT_KNEE_COLLAPSE", <<"invalid_event_window">>)
    ELSE LET fr == ValidIn(pf, ffc, Min2(Len(pf), release + 20))
             values == AsTuple([i \in 1..Len(fr) |-> pf[fr[i] + 1].knee])
         IN IF Len(fr) < 5 THEN Skipped("FRONT_KNEE_COLLAPSE", <<"signal_quality_low">>)
            ELSE IF signal_quality(values, 1) < 50
            THEN Skipped("FRONT_KNEE_COLLAPSE", <<"signal_quality_low">>)
            ELSE LET angle_ffc == values[1]
                     keys == AsTuple([i \in 1..Len(values) |->
                                         Abs(fr[ListIndex(values, values[i])] - release)])
                     angle_rel == values[MinPosByKey(keys)]
                     min_post == MinFrom(values, ListIndex(values, angle_rel))
                     delta == angle_ffc - min_post
                 IN [risk_id |-> "FRONT_KNEE_COLLAPSE",
                     level |-> KneeLevel(angle_rel, delta),
                     window |-> <<ffc, release + 20>>,
                     evidence |-> [angle_at_ffc |-> angle_ffc, angle_at_release |-> angle_rel,
                                   min_post_angle |-> min_post, delta |-> delta],
                     guardrails_applied |-> <<"release_anchored", "brace_checked_by_release",
                                              "follow_through_allowed">>]

\* ------------------------------------------------------------------
\* FrontKneeCollapseRisk.compute on its own
\* ------------------------------------------------------------------
KneeShortLen == 6
KneeHold == 180
KneeTail == 3

KFrame(a) == [lm |-> TRUE, knee |-> a]
KMissing == [lm |-> FALSE, knee |-> 0]

\* A knee held at angle a for `hold` frames, followed by a tail of frames.
HeldThen(a, hold, tail) ==
    [i \in 1..(hold + Len(tail)) |-> IF i <= hold THEN KFrame(a) ELSE tail[i - hold]]

\* The follow-through scenario: the knee is at 170 degrees up to FFC, closes
\* evenly to 155 at Release, gap frames later, folds to 90 over the ten
\* frames after Release and stays there for five more frames.
KneeGapShort == 8
KneeGapLong == 600
BraceThenFold(ffc, gap) ==
    [i \in 1..(ffc + gap + 16) |->
        LET f == i - 1
        IN KFrame(IF f <= ffc THEN 170
                  ELSE IF f <= ffc + gap THEN 170 - (15 * (f - ffc)) \div gap
                  ELSE IF f <= ffc + gap + 10 THEN 155 - (65 * (f - ffc - gap)) \div 10
                  ELSE 90)]

InitKnee ==
    /\ pc = "call"
    /\ \/ \E fs \in SeqsOfLen({KMissing, KFrame(99), KFrame(100)}, KneeShortLen),
             r \in 0..(KneeShortLen - 1) :
              arg = [frames |-> fs, ffc |-> 0, release |-> r]
       \/ \E a \in {100, 125, 145}, tail \in SeqsOfLen({KMissing, KFrame(99), KFrame(100)}, KneeTail),
             hold \in {KneeShortLen, KneeHold}, r \in 0..(KneeTail - 1) :
              arg = [frames |-> HeldThen(a, hold, tail), ffc |-> 0, release |-> hold + r]
       \/ \E ffc \in {0, 3}, gap \in {KneeGapShort, KneeGapLong} :
              arg = [frames |-> BraceThenFold(ffc, gap), ffc |-> ffc, release |-> ffc + gap]
    /\ ret = Null
    /\ CtxIdle

CallKneeCompute ==
    /\ pc = "call"
    /\ ret' = FrontKneeCollapse_compute(arg.frames, arg.ffc, arg.release)
    /\ pc' = "done"
    /\ UNCHANGED <<arg, ctxVars>>

NextKnee == CallKneeCompute

SpecKnee == InitKnee /\ [][NextKnee]_vars

\* The frames with landmarks of the knee window, and those closest to Release.
KneeWindow ==
    {f \in arg.ffc..(Min2(Len(arg.frames), arg.release + 20) - 1) : arg.frames[f + 1].lm}
ClosestToRelease ==
    {f \in KneeWindow : \A g \in KneeWindow : Abs(f - arg.release) <= Abs(g - arg.release)}

\* C6: for every knee series that passes the gates, if the knee angle at the
\* valid frame closest to Release is at least 100 degrees then the level is
\* LOW, also when an angle value occurs at more than one frame.
C6_BracedAtReleaseIsLow ==
    (pc = "done" /\ ret.level # "SKIPPED"
     /\ \A f \in ClosestToRelease : arg.frames[f + 1].knee >= BRACE_ANGLE)
        => ret.level = "LOW"

\* ==================================================================
\* pipeline/biomech_stage.py with the alignment primitives it calls
\* ==================================================================
\* A pose frame of the analyze route carries, beside the fields the events
\* stage reads: knee (front-knee angle), hipx (x of the hip centre), hip_img
\* and sh_img (image-plane angle of the hip and of the shoulder line,
\* arctan2(dy, dx)), hip_xz and sh_xz (ground-plane angle of the two lines
\* against the x axis, 0..180, negative when the line is shorter than 1e-6),
\* heel (y of the back-foot heel) and foot_xz (ground-plane angle of the back
\* foot, as hip_xz).  No stage after events_stage consults vis: mapper.vec,
\* hips_pair and shoulders_pair call _safe_vec without a fallback, which
\* then returns the landmark whatever its visibility, and the alignment
\* primitives index the landmark list directly.
VIS_THRESHOLD == 20
MAX_INTERP_GAP == 7

MissingFrames(pf, s, e) == {i \in s..e : ~pf[i + 1].lm}

\* interp_vec for one coordinate: a + t (b - a) with t = num / den.
interp_vec(a, b, num, den) == a + (num * (b - a)) \div den

\* The nearest frames with landmarks around idx inside [s, e]; s - 1 and
\* e + 1 when there is none.
PrevIdx(pf, idx, s) ==
    IF \E j \in s..(idx - 1) : pf[j + 1].lm
    THEN CHOOSE j \in s..(idx - 1) : pf[j + 1].lm /\ \A k \in (j + 1)..(idx - 1) : ~pf[k + 1].lm
    ELSE s - 1
NextIdx(pf, idx, e) ==
    IF \E j \in (idx + 1)..e : pf[j + 1].lm
    THEN CHOOSE j \in (idx + 1)..e : pf[j + 1].lm /\ \A k \in (idx + 1)..(j - 1) : ~pf[k + 1].lm
    ELSE e + 1

\* The landmarks written into a missing frame: shoulder, elbow and wrist of
\* the bowling arm interpolated between the neighbours p and q with
\* visibility 1.0, every other joint copied from p; confidence 1.0.  The
\* arm signals are interpolated as the joints are (exact for elev, and for
\* ext when both neighbours hold the same arm pose); a frame filled earlier
\* in the loop lies on the same line, so the original neighbours are used.
InterpolatedFrame(pf, idx, p, q) ==
    [pf[p + 1] EXCEPT !.conf = 100, !.vis = 100,
                      !.ext = interp_vec(pf[p + 1].ext, pf[q + 1].ext, idx - p, q - p),
                      !.elev = interp_vec(pf[p + 1].elev, pf[q + 1].elev, idx - p, q - p)]

\* pose_frames after the loop over `missing`: a missing frame with a frame
\* with landmarks before and after it inside [start_idx, end_idx] is filled.
InterpFill(pf, missing, start_idx, end_idx) ==
    [i \in 1..Len(pf) |->
        LET idx == i - 1
            p == PrevIdx(pf, idx, start_idx)
            q == NextIdx(pf, idx, end_idx)
        IN IF idx \in missing /\ p >= start_idx /\ q <= end_idx
           THEN InterpolatedFrame(pf, idx, p, q)
           ELSE pf[i]]

\* A plausible slip: no limit on the number of missing frames.
interpolate_arm_joints_unbounded(pf, start_idx, end_idx) ==
    [ok |-> TRUE,
     frames |-> InterpFill(pf, MissingFrames(pf, start_idx, end_idx), start_idx, end_idx)]

\* interpolate_arm_joints: its return value and pose_frames as it leaves them.
interpolate_arm_joints(pf, start_idx, end_idx) ==
    LET missing == MissingFrames(pf, start_idx, end_idx)
    IN IF missing = {} THEN [ok |-> TRUE, frames |-> pf]
       ELSE IF Cardinality(missing) > MAX_INTERP_GAP THEN [ok |-> FALSE, frames |-> pf]
       ELSE [ok |-> TRUE, frames |-> InterpFill(pf, missing, start_idx, end_idx)]

\* elbow_flexion per frame up to Release: 180 - external, clamped to
\* 0..165; 0.0 for a frame without landmarks.
FlexSeries(pf, f_rel) ==
    [i \in 1..(f_rel + 1) |-> IF pf[i].lm THEN Clip(180 - pf[i].ext, 0, 165) ELSE 0]

\* The k-th smallest element of a sequence (k from 1).
KthSmallest(v, k) ==
    CHOOSE x \in {v[j] : j \in 1..Len(v)} :
        /\ Cardinality({j \in 1..Len(v) : v[j] < x}) < k
        /\ k <= Cardinality({j \in 1..Len(v) : v[j] <= x})

\* 2 * np.median(v).
Median2x(v) ==
    LET n == Len(v)
    IN IF n % 2 = 1 THEN 2 * KthSmallest(v, (n + 1) \div 2)
       ELSE KthSmallest(v, n \div 2) + KthSmallest(v, n \div 2 + 1)

\* 2 * median(vals, idx, r=2) of biomech_stage.run.
MedianAround2x(vals, idx) ==
    Median2x(SubSeq(vals, Max2(0, idx - 2) + 1, Min2(Len(vals), idx + 3)))

SeqMax(v) == CHOOSE x \in {v[j] : j \in 1..Len(v)} : \A j \in 1..Len(v) : v[j] <= x
SeqMin(v) == CHOOSE x \in {v[j] : j \in 1..Len(v)} : \A j \in 1..Len(v) : v[j] >= x

\* The elbow profile stored in ctx.biomech.elbow, angles in half degrees.
ElbowProfile(pf, f_uah, f_rel) ==
    LET flex == FlexSeries(pf, f_rel)
        uah_ext == 360 - MedianAround2x(flex, f_uah)
        rel_ext == 360 - MedianAround2x(flex, f_rel)
        extension == Max2(0, rel_ext - uah_ext)
        peak_external == 360 - 2 * SeqMax(flex)
    IN [uah_angle |-> uah_ext, release_angle |-> rel_ext,
        peak_extension_angle_deg |-> peak_external, peak_extension_frame |-> f_rel,
        extension_deg |-> extension, extension_raw_deg |-> peak_external,
        extension_error_margin_deg |-> 12]

\* ------------------------------------------------------------------
\* Alignment primitives
\* ------------------------------------------------------------------
\* Handedness normalisation and folding of an angle into 0..90.
FoldAngle(ang, hand) ==
    LET a == Abs(IF hand = "L" THEN 180 - ang ELSE ang)
    IN IF a > 90 THEN 180 - a ELSE a

\* hip_alignment.run: ctx.biomech as it leaves it.
hip_alignment_run(pf, ev, bm, hand) ==
    IF ev.ffc = Null THEN bm
    ELSE LET frame == ev.ffc.frame
         IN IF frame < 0 \/ frame >= Len(pf) THEN bm
            ELSE IF ~pf[frame + 1].lm THEN bm
            ELSE IF pf[frame + 1].hip_xz < 0 THEN bm
            ELSE LET ang == FoldAngle(pf[frame + 1].hip_xz, hand)
                     zone == IF ang <= 30 THEN "SIDE_ON"
                             ELSE IF ang <= 55 THEN "TRANSITIONAL" ELSE "FRONT_ON"
                 IN [bm EXCEPT !.hip = [angle_deg |-> ang, zone |-> zone,
                                        confidence |-> ev.ffc.conf, frame |-> frame]]

\* shoulder_alignment.run: anchored at UAH, image-plane angle.
shoulder_alignment_run(pf, ev, bm) ==
    LET absent == [bm EXCEPT !.shoulder = Null]
    IN IF ev.uah = Null THEN absent
       ELSE LET frame == ev.uah.frame
            IN IF ~(0 <= frame /\ frame < Len(pf)) THEN absent
               ELSE IF ~pf[frame + 1].lm THEN absent
               ELSE LET a == Abs(pf[frame + 1].sh_img)
                        angle_deg == IF a > 90 THEN 180 - a ELSE a
                        zone == IF angle_deg <= 25 THEN "SIDE_ON"
                                ELSE IF angle_deg >= 65 THEN "FRONT_ON" ELSE "MIXED"
                    IN [bm EXCEPT !.shoulder = [angle_deg |-> angle_deg, zone |-> zone,
                                                frame |-> frame]]

\* shoulder_hip_separation.run
shoulder_hip_separation_run(pf, ev, bm, hand) ==
    IF ev.ffc = Null THEN bm
    ELSE LET frame == ev.ffc.frame
         IN IF frame < 0 \/ frame >= Len(pf) THEN bm
            ELSE IF ~pf[frame + 1].lm THEN bm
            ELSE IF pf[frame + 1].sh_xz < 0 \/ pf[frame + 1].hip_xz < 0 THEN bm
            ELSE LET sh_ang == FoldAngle(pf[frame + 1].sh_xz, hand)
                     hip_ang == FoldAngle(pf[frame + 1].hip_xz, hand)
                     separation == Clip(sh_ang - hip_ang, -90, 90)
                     zone == IF Abs(separation) < 10 THEN "LOW"
                             ELSE IF Abs(separation) < 25 THEN "MODERATE" ELSE "HIGH"
                 IN [bm EXCEPT !.shoulder_hip = [separation_deg |-> separation, zone |-> zone,
                                                 confidence |-> ev.ffc.conf, frame |-> frame]]

\* backfoot_landing_angle.run, step 1: the reverse search from FFC - 1 down
\* to frame 1 for the first frame on the ground after at least two frames in
\* the air (heel more than 0.02 above the heel at FFC); -1 when none.
RECURSIVE FindContact(_, _, _, _)
FindContact(pf, ffc_frame, i, was_air_count) ==
    IF i < 1 THEN -1
    ELSE IF ~pf[i + 1].lm THEN FindContact(pf, ffc_frame, i - 1, 0)
    ELSE IF pf[i + 1].heel > pf[ffc_frame + 1].heel + 2
    THEN FindContact(pf, ffc_frame, i - 1, was_air_count + 1)
    ELSE IF was_air_count >= 2 THEN i
    ELSE FindContact(pf, ffc_frame, i - 1, 0)

\* The search reads the heel of the FFC frame outside its try block: with no
\* landmarks at FFC the first frame with landmarks raises TypeError.
BackfootRaises(pf, ev) ==
    /\ ev.ffc # Null
    /\ ev.ffc.frame > 2 /\ ev.ffc.frame < Len(pf)
    /\ ~pf[ev.ffc.frame + 1].lm
    /\ \E i \in 1..(ev.ffc.frame - 1) : pf[i + 1].lm

backfoot_landing_run(pf, ev, bm, hand) ==
    IF ev.ffc = Null THEN bm
    ELSE LET ffc_frame == ev.ffc.frame
         IN IF ffc_frame <= 2 \/ ffc_frame >= Len(pf) THEN bm
            ELSE LET contact_frame == FindContact(pf, ffc_frame, ffc_frame - 1, 0)
                 IN IF contact_frame < 0 THEN bm
                    ELSE IF pf[contact_frame + 1].foot_xz < 0 THEN bm
                    ELSE LET ang == FoldAngle(pf[contact_frame + 1].foot_xz, hand)
                             zone == IF ang < 20 THEN "CLOSED"
                                     ELSE IF ang < 45 THEN "NEUTRAL" ELSE "OPEN"
                         IN [bm EXCEPT !.backfoot = [angle_deg |-> ang, zone |-> zone,
                                                     confidence |-> ev.ffc.conf,
                                                     frame |-> contact_frame]]

\* ------------------------------------------------------------------
\* Risk calculators called by the biomech stage.  A calculator returns a
\* dict, None (Null), or raises (Raised).
\* ------------------------------------------------------------------
Raised == [exception |-> TRUE]

\* effective < k/2 for effective = early * (1 - late / (early + late + 1e-6)),
\* early = E * fps / 200 and late = L * fps / 200 (E, L in Grad2 units of
\* 0.01 per frame), evaluated exactly on the reals: with everything
\* multiplied by 2 * 10^10 the comparison is
\*     (E^2 fps^2 - 100 k (E + L) fps) * 10^6 + 200 E fps - 20000 k < 0.
EffectiveBelow(E, L, fps, k) ==
    LET hi == E * E * fps * fps - 100 * k * (E + L) * fps
        lo == 200 * E * fps - 20000 * k
    IN IF hi <= -4 THEN TRUE
       ELSE IF hi >= 4 THEN FALSE
       ELSE hi * 1000000 + lo < 0

\* FrontFootBrakingRisk.compute; LOW = 2.5 and HIGH = 5.5 are k = 5 and 11.
FrontFootBraking_compute(pf, ffc, release, fps) ==
    LET end == Min2(Len(pf) - 1, release + 15)
        fr == ValidIn(pf, ffc, end)
        xs == AsTuple([i \in 1..Len(fr) |-> pf[fr[i] + 1].hipx])
    IN IF Len(xs) < 3 THEN Null
       ELSE IF signal_quality(xs, 100) < 50 THEN Null
       ELSE LET v == AsTuple(Grad2(xs))
                half == Len(v) \div 2
                early == Max2(0, v[1] - SeqMin(SubSeq(v, 1, half)))
                late == Max2(0, v[half + 1] - SeqMin(v))
                level == IF EffectiveBelow(early, late, fps, 5) THEN "LOW"
                         ELSE IF EffectiveBelow(early, late, fps, 11) THEN "MEDIUM"
                         ELSE "HIGH"
            IN [risk_id |-> "FRONT_FOOT_BRAKING",
                level |-> level,
                confidence_pct |-> signal_quality(xs, 100),
                window |-> <<Max2(0, ffc - (8 * fps) \div 100),
                             Min2(Len(pf) - 1, release + (12 * fps) \div 100)>>,
                guardrails_applied |-> <<"signal_quality_ok", "min_window_ok",
                                         "release_anchored">>]

\* compute_pair_angle_series over the frames start_f..end_f; ang is the
\* pair's angle per frame.  A frame without landmarks repeats the previous
\* entry, 0.0 when it is the first.
compute_pair_angle_series(pf, start_f, end_f, ang) ==
    AsTuple([k \in 1..Max2(0, end_f - start_f + 1) |->
        LET f == start_f + k - 1
            p == PrevIdx(pf, f + 1, start_f)
        IN IF p < start_f THEN 0 ELSE ang[p + 1]])

\* Thresholds of HipShoulderMismatchRisk for spin and pace, in degrees and
\* in deg/s^3.
T_SPIN_SEP_CHANGE == 18
T_PACE_SEP_CHANGE == 12
T_SPIN_JERK == 250
T_PACE_JERK == 180

\* 100 * interpolate(t_spin, t_pace, I), the intensity I in units of 0.01.
interpolate100(t_spin, t_pace, I) == (100 - I) * t_spin + I * t_pace

\* HipShoulderMismatchRisk.compute; with I = 0.7 T_sep is 13.8 degrees and
\* T_jerk 201 deg/s^3.  The series start at BFC and are sliced [bfc:ffc]
\* again; np.gradient raises on fewer than 2 samples.
\* separation = shoulder_angles[bfc:ffc] - hip_angles[bfc:ffc]: the slice
\* takes the elements at positions bfc..ffc-1 of the arrays it is given,
\* as far as they exist.
HsmSeparation(hip_angles, shoulder_angles, bfc, ffc) ==
    LET hi == Min2(ffc, Len(hip_angles))
    IN AsTuple([k \in 1..Max2(0, hi - bfc) |->
                   shoulder_angles[bfc + k] - hip_angles[bfc + k]])

HipShoulderMismatch_compute(hip_angles, shoulder_angles, bfc, ffc, fps, I) ==
    IF ffc <= bfc + 2
    THEN [risk_id |-> "HIP_SHOULDER_MISMATCH", level |-> "UNKNOWN"]
    ELSE LET separation == HsmSeparation(hip_angles, shoulder_angles, bfc, ffc)
         IN IF Len(separation) < 2 THEN Raised
            ELSE LET sep_jerk8 == AsTuple(Grad2(AsTuple(Grad2(AsTuple(Grad2(separation))))))
                     sep_change == SeqMax(separation) - SeqMin(separation)
                     peak_jerk8 == Max2(SeqMax(sep_jerk8), -SeqMin(sep_jerk8))
                     T_sep100 == interpolate100(T_SPIN_SEP_CHANGE, T_PACE_SEP_CHANGE, I)
                     T_jerk100 == interpolate100(T_SPIN_JERK, T_PACE_JERK, I)
                     triggered == 100 * sep_change > T_sep100
                                  /\ 100 * peak_jerk8 * fps * fps * fps > 8 * T_jerk100
                 IN [risk_id |-> "HIP_SHOULDER_MISMATCH",
                     level |-> IF triggered THEN "HIGH" ELSE "LOW"]

\* LateralTrunkLeanRisk.compute: the gates are the code's; the grade of the
\* peak angular jerk of the smoothed trunk tilt against T_low and T_high is
\* a property of the clip (jerk_grade).
LateralTrunkLean_compute(pf, ffc, uah, jerk_grade) ==
    IF uah - ffc < 3 THEN Null
    ELSE IF \E f \in ffc..uah : ~pf[f + 1].lm THEN Null
    ELSE [risk_id |-> "LATERAL_TRUNK_LEAN", level |-> jerk_grade,
          metrics |-> [frames |-> <<ffc, uah>>]]

\* format_risk keeps id and level; the narrative texts and the numeric
\* evidence are left out.  Every risk_id produced above is known to it.
format_risk(result) ==
    IF result.level = "SKIPPED"
    THEN [id |-> result.risk_id, level |-> "SKIPPED", status |-> "SKIPPED",
          confidence_pct |-> 0,
          window |-> IF "window" \in DOMAIN result THEN result.window ELSE <<>>,
          guardrails_applied |-> IF "guardrails_applied" \in DOMAIN result
                                 THEN result.guardrails_applied ELSE <<>>]
    ELSE [id |-> result.risk_id, level |-> result.level,
          status |-> IF result.level = "LOW" THEN "OK" ELSE "ATTENTION",
          confidence_pct |-> IF "confidence_pct" \in DOMAIN result
                             THEN result.confidence_pct ELSE 0,
          window |-> IF "window" \in DOMAIN result THEN result.window ELSE <<>>,
          guardrails_applied |-> IF "guardrails_applied" \in DOMAIN result
                                 THEN result.guardrails_applied ELSE <<>>]

\* ------------------------------------------------------------------
\* biomech_stage.run
\* ------------------------------------------------------------------
\* r and isinstance(r, dict) and r.get("level") in ("MEDIUM", "HIGH")
Supporting(r) == r # Null /\ r.level \in {"MEDIUM", "HIGH"}

\* A plausible slip: the trunk-lean finding is never downgraded.
LtlEntry_as_graded(ltl, ffb, hsm) == format_risk(ltl)

\* The entry appended for a trunk-lean result: as graded when front-foot
\* braking or hip-shoulder mismatch supports it, else a copy with level LOW.
LtlEntry(ltl, ffb, hsm) ==
    IF Supporting(ffb) \/ Supporting(hsm) THEN format_risk(ltl)
    ELSE format_risk([ltl EXCEPT !.level = "LOW"])

\* The intensity I handed to every calculator: the literal 0.7, whatever
\* the inputs of the clip (ctx.input.bowler_type is never read).
RISK_INTENSITY == 70
RiskIntensity(inp) == RISK_INTENSITY

\* The list `formatted` at the end of the risk section.  A calculator that
\* returns None or raises inside its try block appends nothing.
RiskSection(pf, ev, inp) ==
    LET f_ffc == ev.ffc.frame
        f_bfc == ev.bfc.frame
        ffb == FrontFootBraking_compute(pf, f_ffc, ev.release.frame, inp.fps)
        hip == compute_pair_angle_series(pf, f_bfc, f_ffc,
                                         [i \in 1..Len(pf) |-> pf[i].hip_img])
        sh == compute_pair_angle_series(pf, f_bfc, f_ffc,
                                        [i \in 1..Len(pf) |-> pf[i].sh_img])
        computed == HipShoulderMismatch_compute(hip, sh, f_bfc, f_ffc, inp.fps,
                                               RiskIntensity(inp))
        hsm == IF computed = Raised THEN Null ELSE computed
        ltl == LateralTrunkLean_compute(pf, f_ffc, ev.uah.frame, inp.jerk_grade)
        fnc == FrontKneeCollapse_compute(pf, f_ffc, ev.release.frame)
    IN (IF ffb # Null THEN <<format_risk(ffb)>> ELSE <<>>)
       \o (IF hsm # Null THEN <<format_risk(hsm)>> ELSE <<>>)
       \o (IF ltl # Null THEN <<LtlEntry(ltl, ffb, hsm)>> ELSE <<>>)
       \o <<format_risk(fnc)>>

\* A plausible slip: a failure that leaves no trace in biomech.error.
BiomechFail_silent(bm, msg) == bm

\* ctx.biomech.error = msg
BiomechFail(bm, msg) == [bm EXCEPT !.error = msg]

\* biomech_stage.run for ctx.pose.frames = all, ctx.events = ev, ctx.biomech
\* = bm and the inputs inp (hand, fps, jerk_grade).  The result holds
\* pose_frames and ctx.biomech as the stage leaves them, and the dict built
\* for ctx.biomech.risk (Null when the stage ends before building it).
\* BiomechModel declares no field `risk`, so that assignment raises
\* ValueError, which the stage's own handler turns into biomech.error.
biomech_run(all, ev, bm, inp) ==
    IF Len(all) = 0 \/ ev.release = Null \/ ev.uah = Null
    THEN [frames |-> all, summary |-> Null,
          biomech |-> BiomechFail(bm, "Missing pose or mandatory events")]
    ELSE LET f_rel == ev.release.frame
             f_uah == ev.uah.frame
             interp == interpolate_arm_joints(all, f_uah, f_rel)
             pf == AsTuple(interp.frames)
         IN IF ~interp.ok
            THEN [frames |-> all, summary |-> Null,
                  biomech |-> BiomechFail(bm, "Arm landmarks insufficient")]
            ELSE IF ~pf[f_rel + 1].lm
            THEN [frames |-> pf, summary |-> Null,
                  biomech |-> BiomechFail(bm, "'NoneType' object is not subscriptable")]
            ELSE LET hipped == hip_alignment_run(pf, ev, bm, inp.hand)
                     shouldered == shoulder_alignment_run(pf, ev, hipped)
                     separated == shoulder_hip_separation_run(pf, ev, shouldered, inp.hand)
                 IN IF BackfootRaises(pf, ev)
                    THEN [frames |-> pf, summary |-> Null,
                          biomech |-> BiomechFail(separated,
                                          "'NoneType' object is not subscriptable")]
                    ELSE LET footed == backfoot_landing_run(pf, ev, separated, inp.hand)
                             stored == [footed EXCEPT !.elbow = ElbowProfile(pf, f_uah, f_rel)]
                             formatted == RiskSection(pf, ev, inp)
                         IN [frames |-> pf,
                             summary |-> [overall |-> aggregate_risks(formatted),
                                          breakdown |-> formatted],
                             biomech |-> BiomechFail(stored,
                                 "\"BiomechModel\" object has no field \"risk\"")]

\* ------------------------------------------------------------------
\* pipeline/risk_engine.py, pipeline/cues_engine.py
\* ------------------------------------------------------------------
_unknown_risk(reason) == [score |-> 0, level |-> "UNKNOWN", details |-> [reason |-> reason]]

\* risk_engine.run: the models ctx.biomech and ctx.decision are always
\* truthy.  With an elbow profile and a classification stored, the profile
\* is a dict and `elbow.extension_deg` raises AttributeError; otherwise
\* ctx.risk is the unknown risk.  The function returns None either way.
risk_engine_run(bm, dec, rk) ==
    IF bm.elbow = Null \/ DOMAIN dec = {}
    THEN [risk |-> _unknown_risk("Insufficient data for risk evaluation"),
          raised |-> "none", returns |-> "None"]
    ELSE [risk |-> rk, raised |-> "AttributeError", returns |-> "none"]

\* The cue texts of CUE_LIBRARY are represented by their keys.
CueKeys ==
    {"ELASTIC_LOAD", "CONTROLLED_LOAD", "SAFE_BUT_WEAK", "LOW_SEPARATION",
     "CONTROLLED_ACTION", "FRONT_ON_FORCE", "FRONT_ON_COLLAPSE", "MIXED_ACTION",
     "UNCLASSIFIED_ACTION", "INSUFFICIENT_DATA"}

\* cues_engine.run on the route's ctx: on None, getattr(ctx, "decision",
\* None) is None and `ctx.cues.list = ...` raises AttributeError.
cues_engine_run(ref, dec, cs) ==
    IF ref = "None" THEN [cues |-> cs, raised |-> "AttributeError", returns |-> "none"]
    ELSE IF DOMAIN dec = {}
    THEN [cues |-> <<"analysis_incomplete">>, raised |-> "none", returns |-> "None"]
    ELSE IF dec.action = None
    THEN [cues |-> <<"unable_to_interpret">>, raised |-> "none", returns |-> "None"]
    ELSE LET base == IF dec.action \in CueKeys THEN <<dec.action>>
                     ELSE <<"UNCLASSIFIED_ACTION">>
             extra == IF dec.quality = "HIGH_RISK" THEN <<"reduce_workload">>
                      ELSE IF dec.quality = "OPTIMAL" THEN <<"maintain">> ELSE <<>>
         IN [cues |-> base \o extra, raised |-> "none", returns |-> "None"]

\* ------------------------------------------------------------------
\* routes/analyze_route.py: the stages from events_stage on, for a clip
\* whose pose frames are given
\* ------------------------------------------------------------------
PipeLen == 12
Fps == 30

Flat(n, a) == [i \in 1..n |-> a]
\* The ankle rests low at frame 0 and dips to the ground around frame q.
Dips(n, q) ==
    [i \in 1..n |-> IF i - 1 = 0 THEN 5 ELSE IF i - 1 = q THEN 0
                    ELSE IF Abs(i - 1 - q) = 1 THEN 10 ELSE 40]
\* The hip centre advances by `step` per frame for two frames after frame q.
Brake(n, q, step) == [i \in 1..n |-> 50 + Min2(2 * step, step * Max2(0, i - 1 - q))]
\* The back foot is in the air at frames 2 and 3.
Hop(n) == [i \in 1..n |-> IF i - 1 \in {2, 3} THEN 60 ELSE 50]

\* Frames from per-signal series sig; frame m (if any) has no landmarks,
\* every landmark has visibility vis.
PipeFrames(n, sig, m, vis) ==
    [i \in 1..n |->
        [lm |-> i - 1 # m, vis |-> vis, conf |-> IF i - 1 = m THEN 0 ELSE 90,
         ext |-> sig.ext[i], elev |-> sig.elev[i], rot |-> sig.rot[i],
         ankle |-> sig.ankle[i], knee |-> sig.knee[i], hipx |-> sig.hipx[i],
         hip_img |-> 0, sh_img |-> sig.sh_img[i],
         hip_xz |-> sig.hip_xz, sh_xz |-> sig.sh_xz,
         heel |-> sig.heel[i], foot_xz |-> sig.foot_xz]]

ExtCurves(n) == {Tent(n, 0, 170, 100), Tent(n, 5, 170, 10), Tent(n, 8, 170, 10)}
AnkleCurves(n) == {Dips(n, 1), Dips(n, 4), Dips(n, 6)}
HipCurves(n) == {Flat(n, 50), Brake(n, 4, 15), Brake(n, 4, 20)}
KneeCurves(n) == {Flat(n, 170), Pulse(n, 6, 170, 90)}
ShoulderCurves(n) == {Flat(n, 0), Pulse(n, 1, 0, 30)}
HeelCurves(n) == {Flat(n, 50), Hop(n)}
Stances ==
    {[hip_xz |-> 20, sh_xz |-> 25, foot_xz |-> 10], [hip_xz |-> 20, sh_xz |-> 60, foot_xz |-> 50],
     [hip_xz |-> 70, sh_xz |-> 60, foot_xz |-> 10]}

\* The clip's inputs beside the frames: bowling hand, frame rate, and the
\* grade of the trunk's peak jerk.
ClipInputs ==
    {[hand |-> "R", fps |-> Fps, jerk_grade |-> g] : g \in {"LOW", "MEDIUM", "HIGH"}}
    \cup {[hand |-> "L", fps |-> Fps, jerk_grade |-> "HIGH"]}

Init ==
    /\ pc = "events_stage"
    /\ ret = Null
    /\ arg \in ClipInputs
    /\ \/ \E ext \in ExtCurves(PipeLen), ankle \in AnkleCurves(PipeLen), e \in {2, 9},
             hipx \in HipCurves(PipeLen), knee \in KneeCurves(PipeLen),
             sh_img \in ShoulderCurves(PipeLen), heel \in HeelCurves(PipeLen),
             st \in Stances, m \in {-1, 4, 8}, vis \in {10, 90} :
              frames = PipeFrames(PipeLen,
                           [ext |-> ext, elev |-> StepAt(PipeLen, e, 0, 10),
                            rot |-> Ramp(PipeLen, 3), ankle |-> ankle, knee |-> knee,
                            hipx |-> hipx, sh_img |-> sh_img, heel |-> heel,
                            hip_xz |-> st.hip_xz, sh_xz |-> st.sh_xz,
                            foot_xz |-> st.foot_xz], m, vis)
       \/ \E n \in 0..(MinEvLen - 1), m \in {-1, 0}, vis \in {10, 90} :
              frames = PipeFrames(n,
                           [ext |-> Tent(n, 2, 170, 10), elev |-> Flat(n, 0),
                            rot |-> Flat(n, 0), ankle |-> Dips(n, 1), knee |-> Flat(n, 170),
                            hipx |-> Flat(n, 50), sh_img |-> Flat(n, 0), heel |-> Flat(n, 50),
                            hip_xz |-> 20, sh_xz |-> 25, foot_xz |-> 10], m, vis)
    /\ events = NoEvents
    /\ biomech = NoBiomech
    /\ decision = EmptyDict
    /\ risk = Null
    /\ cues = <<>>
    /\ ctxRef = "ctx"
    /\ raised = "none"

\* ctx = events_stage(ctx)
RouteEvents ==
    /\ pc = "events_stage"
    /\ events' = events_run(frames)
    /\ pc' = "biomech_stage"
    /\ UNCHANGED <<arg, ret, frames, biomech, decision, risk, cues, ctxRef, raised>>

\* ctx = biomech_stage(ctx); ret keeps the dict the stage built for
\* ctx.biomech.risk.
RouteBiomech ==
    /\ pc = "biomech_stage"
    /\ LET out == biomech_run(frames, events, biomech, arg)
       IN /\ frames' = out.frames
          /\ biomech' = out.biomech
          /\ ret' = out.summary
    /\ pc' = "action_matrix"
    /\ UNCHANGED <<arg, events, decision, risk, cues, ctxRef, raised>>

\* action_matrix(ctx)
RouteActionMatrix ==
    /\ pc = "action_matrix"
    /\ decision' = action_matrix_run(biomech)
    /\ pc' = "risk_engine"
    /\ UNCHANGED <<arg, ret, frames, events, biomech, risk, cues, ctxRef, raised>>

\* ctx = risk_engine(ctx)
RouteRiskEngine ==
    /\ pc = "risk_engine"
    /\ LET out == risk_engine_run(biomech, decision, risk)
       IN /\ risk' = out.risk
          /\ raised' = out.raised
          /\ ctxRef' = IF out.raised = "none" THEN out.returns ELSE ctxRef
          /\ pc' = IF out.raised = "none" THEN "cues_engine" ELSE "raised"
    /\ UNCHANGED <<arg, ret, frames, events, biomech, decision, cues>>

\* ctx = cues_engine(ctx)
RouteCuesEngine ==
    /\ pc = "cues_engine"
    /\ LET out == cues_engine_run(ctxRef, decision, cues)
       IN /\ cues' = out.cues
          /\ raised' = out.raised
          /\ ctxRef' = IF out.raised = "none" THEN out.returns ELSE ctxRef
          /\ pc' = IF out.raised = "none" THEN "report_stage" ELSE "raised"
    /\ UNCHANGED <<arg, ret, frames, events, biomech, decision, risk>>

Next ==
    \/ RouteEvents
    \/ RouteBiomech
    \/ RouteActionMatrix
    \/ RouteRiskEngine
    \/ RouteCuesEngine

Spec == Init /\ [][Next]_vars

\* ------------------------------------------------------------------
\* Properties of the route
\* ------------------------------------------------------------------
RiskIds ==
    {"FRONT_FOOT_BRAKING", "FRONT_KNEE_COLLAPSE", "HIP_SHOULDER_MISMATCH",
     "LATERAL_TRUNK_LEAN"}
Graded == {"MEDIUM", "HIGH"}

\* The risk section of the biomech stage has run.
RiskSectionDone == pc \notin {"events_stage", "biomech_stage"} /\ ret # Null
Entries(id) == {i \in 1..Len(ret.breakdown) : ret.breakdown[i].id = id}

\* C2: every stage call of the route returns without raising and leaves a
\* non-null Context in the route's variable ctx for the next stage.
C2_StagesHandOverContext == raised = "none" /\ ctxRef = "ctx"

\* C4: after the risk section the breakdown holds exactly one entry for each
\* of the four calculators, and an entry that carries no grade is a SKIPPED
\* finding with a guardrail tag.
C4_OneEntryPerCalculator ==
    RiskSectionDone =>
        /\ \A id \in RiskIds : Cardinality(Entries(id)) = 1
        /\ \A i \in 1..Len(ret.breakdown) :
              \/ ret.breakdown[i].level \in {"LOW", "MEDIUM", "HIGH"}
              \/ /\ ret.breakdown[i].level = "SKIPPED"
                 /\ ret.breakdown[i].guardrails_applied # <<>>

\* Some finding other than LATERAL_TRUNK_LEAN is MEDIUM or HIGH.
OtherGraded ==
    \E i \in 1..Len(ret.breakdown) :
        ret.breakdown[i].id # "LATERAL_TRUNK_LEAN" /\ ret.breakdown[i].level \in Graded

\* C5: if no other calculator reports MEDIUM or HIGH, a LATERAL_TRUNK_LEAN
\* finding is in the breakdown with level LOW; and when the aggregated
\* overall is Medium or High, some other finding is MEDIUM or HIGH.
C5_TrunkLeanNeverDominates ==
    RiskSectionDone =>
        /\ ~OtherGraded =>
              \A i \in Entries("LATERAL_TRUNK_LEAN") : ret.breakdown[i].level = "LOW"
        /\ ret.overall \in {"Medium", "High"} => OtherGraded

\* A trunk lean graded HIGH on its own enters the breakdown as LOW.
C5_Witness ==
    /\ RiskSectionDone
    /\ arg.jerk_grade = "HIGH"
    /\ ~OtherGraded
    /\ \E i \in Entries("LATERAL_TRUNK_LEAN") : ret.breakdown[i].level = "LOW"
    /\ ret.overall = "Low"

\* Every landmark of every frame is below both visibility thresholds.
AllBelowVisibility ==
    /\ Len(frames) > 0
    /\ \A i \in 1..Len(frames) : frames[i].lm /\ frames[i].vis < Min2(MIN_VIS, VIS_THRESHOLD)

\* C7: when every landmark of every frame is below the visibility
\* threshold, events_stage, biomech_stage and action_matrix raise nothing,
\* every finding of the breakdown is SKIPPED and the classifier stores
\* INSUFFICIENT_DATA.
C7_LowVisibilityDegrades ==
    (pc = "risk_engine" /\ AllBelowVisibility) =>
        /\ raised = "none"
        /\ ret # Null => \A i \in 1..Len(ret.breakdown) : ret.breakdown[i].level = "SKIPPED"
        /\ decision.action = "INSUFFICIENT_DATA"

NoAnchors ==
    events.release = Null /\ events.uah = Null /\ events.ffc = Null /\ events.bfc = Null

\* C8: when events_stage.run stored no anchor, biomech_stage.run returns
\* without raising, with biomech.error set, no zone primitive and no elbow
\* profile stored, and action_matrix.run then stores INSUFFICIENT_DATA with
\* quality UNKNOWN.
C8_NoAnchorsDegrade ==
    (pc \in {"action_matrix", "risk_engine"} /\ NoAnchors) =>
        /\ raised = "none" /\ ctxRef = "ctx"
        /\ biomech.error # None
        /\ biomech.hip = Null /\ biomech.shoulder = Null /\ biomech.shoulder_hip = Null
        /\ biomech.backfoot = Null /\ biomech.elbow = Null
        /\ pc = "risk_engine" =>
              decision.action = "INSUFFICIENT_DATA" /\ decision.quality = "UNKNOWN"

\* The events stage failed inside detect_ffc on a clip of PipeLen frames and
\* the two following stages degraded.
C8_Witness ==
    /\ pc = "risk_engine"
    /\ Len(frames) >= 5
    /\ NoAnchors /\ events.error = "attempt to get argmin of an empty sequence"
    /\ biomech.error = "Missing pose or mandatory events"
    /\ decision.action = "INSUFFICIENT_DATA"

\* ==================================================================
\* pipeline/ffc_reverse.py
\* ==================================================================
\* A frame carries sep, the vertical distance |ankle.y - heel.y| of the
\* front foot in units of 0.001, and conf in units of 0.01.
GROUNDED_EPS == 15

_is_grounded(f) == f.sep < GROUNDED_EPS

\* float(confidence or 0.8) * 100.0
ReverseConf(f) == IF f.conf = 0 THEN 80 ELSE f.conf

\* The result of the step of detect_ffc_reverse that leaves a stable region:
\* the event frame chosen among the frames collected so far.
StableExit(stable_frames) == SeqMax(stable_frames)

\* The loop `for f in range(anchor_idx, 1, -1)` from frame f on.
RECURSIVE ReverseScan(_, _, _, _)
ReverseScan(pf, f, stable_frames, min_stable) ==
    IF f <= 1 THEN Null
    ELSE IF ~pf[f + 1].lm THEN ReverseScan(pf, f - 1, <<>>, min_stable)
    ELSE IF _is_grounded(pf[f + 1])
         THEN ReverseScan(pf, f - 1, Append(stable_frames, f), min_stable)
    ELSE IF Len(stable_frames) >= min_stable
         THEN LET ffc_frame == StableExit(stable_frames)
              IN Event(ffc_frame, ReverseConf(pf[ffc_frame + 1]))
    ELSE ReverseScan(pf, f - 1, <<>>, min_stable)

detect_ffc_reverse(pf, anchor_idx, min_stable) ==
    IF anchor_idx <= min_stable + 2 THEN Null
    ELSE ReverseScan(pf, anchor_idx, <<>>, min_stable)

\* ------------------------------------------------------------------
\* detect_ffc_reverse on its own
\* ------------------------------------------------------------------
RevLen == 8
MIN_STABLE == 3

RevGrounded == [lm |-> TRUE, sep |-> 5, conf |-> 90]
RevAir == [lm |-> TRUE, sep |-> 30, conf |-> 0]
RevMissing == [lm |-> FALSE, sep |-> 0, conf |-> 0]

InitFfcReverse ==
    /\ pc = "call"
    /\ \E fs \in SeqsOfLen({RevGrounded, RevAir, RevMissing}, RevLen),
          a \in (RevLen - 3)..(RevLen - 1) :
           arg = [frames |-> fs, anchor_idx |-> a]
    /\ ret = Null
    /\ CtxIdle

CallDetectFfcReverse ==
    /\ pc = "call"
    /\ ret' = detect_ffc_reverse(arg.frames, arg.anchor_idx, MIN_STABLE)
    /\ pc' = "done"
    /\ UNCHANGED <<arg, ctxVars>>

NextFfcReverse == CallDetectFfcReverse

SpecFfcReverse == InitFfcReverse /\ [][NextFfcReverse]_vars

GroundedAt(f) == arg.frames[f + 1].lm /\ _is_grounded(arg.frames[f + 1])

\* C11: when detect_ffc_reverse returns an event, its frame is grounded and
\* is the earliest frame of the grounded run found by the backward scan: the
\* frame just before it is the non-grounded frame that ended the scan.
C11_ReverseFfcIsEarliestOfRun ==
    (pc = "done" /\ ret # Null) =>
        /\ GroundedAt(ret.frame)
        /\ ret.frame >= 1
        /\ arg.frames[ret.frame].lm
        /\ ~GroundedAt(ret.frame - 1)

\* ------------------------------------------------------------------
\* biomech_stage.run on its own, for given pose frames and events
\* ------------------------------------------------------------------
BioLen == 12

\* The frames of pf with landmarks removed at the indices of mask.
Masked(pf, mask) ==
    [i \in 1..Len(pf) |->
        IF i - 1 \in mask THEN [pf[i] EXCEPT !.lm = FALSE, !.conf = 0] ELSE pf[i]]

BioExtCurves(n) == {Tent(n, 5, 170, 10), Tent(n, n - 2, 170, 15), Flat(n, 150)}
BowlerTypes == {"pace", "spin"}
BioMasks(n) ==
    {(a..b) \cup extra : a \in 0..(n - 1), b \in 0..(n - 1),
                         extra \in {{}, {n - 4, n - 3}}}

\* A long clip of BioLongLen frames whose knee is held for KneeHold frames
\* and is bent at Release, or stays straight.
BioLongLen == KneeHold + 5
BioLongKnees ==
    {StepAt(BioLongLen, KneeHold, 125, 99), StepAt(BioLongLen, KneeHold, 125, 100),
     Flat(BioLongLen, 170)}

InitBiomech ==
    /\ pc = "call"
    /\ ret = Null
    /\ \/ /\ \E ext \in BioExtCurves(BioLen), mask \in BioMasks(BioLen), vis \in {90} :
                frames = Masked(PipeFrames(BioLen,
                             [ext |-> ext, elev |-> StepAt(BioLen, 2, 0, 10),
                              rot |-> Ramp(BioLen, 3), ankle |-> Dips(BioLen, 4),
                              knee |-> Flat(BioLen, 170), hipx |-> Brake(BioLen, 4, 15),
                              sh_img |-> Flat(BioLen, 0), heel |-> Hop(BioLen),
                              hip_xz |-> 20, sh_xz |-> 60, foot_xz |-> 50], -1, vis), mask)
          /\ \E u \in {0, 1, 3}, r \in {5, BioLen - 2, BioLen - 1}, f \in {0, 4} :
                events = [release |-> Event(r, 90), uah |-> Event(u, 90),
                          ffc |-> Event(f, 90), bfc |-> Event(Max2(0, f - 3), 90),
                          error |-> None]
       \/ /\ \E knee \in BioLongKnees, hipx \in {Flat(BioLongLen, 50), Brake(BioLongLen, 4, 15)},
                sh \in {Flat(BioLongLen, 0), Pulse(BioLongLen, 2, 0, 30)} :
                frames = PipeFrames(BioLongLen,
                             [ext |-> Flat(BioLongLen, 150), elev |-> Flat(BioLongLen, 10),
                              rot |-> Flat(BioLongLen, 0), ankle |-> Flat(BioLongLen, 50),
                              knee |-> knee, hipx |-> hipx,
                              sh_img |-> sh, heel |-> Flat(BioLongLen, 50),
                              hip_xz |-> 20, sh_xz |-> 60, foot_xz |-> 50], -1, 90)
          /\ \E f \in {0, 4} :
                events = [release |-> Event(KneeHold, 90), uah |-> Event(KneeHold - 4, 90),
                          ffc |-> Event(f, 90), bfc |-> Event(Max2(0, f - 3), 90),
                          error |-> None]
    /\ \E inp \in ClipInputs, bt \in BowlerTypes :
          arg = [hand |-> inp.hand, fps |-> inp.fps, jerk_grade |-> inp.jerk_grade,
                 bowler_type |-> bt, pose |-> frames, events |-> events]
    /\ biomech = NoBiomech
    /\ decision = EmptyDict
    /\ risk = Null
    /\ cues = <<>>
    /\ ctxRef = "ctx"
    /\ raised = "none"

\* ctx = biomech_stage.run(ctx); ret keeps the dict built for ctx.biomech.risk.
CallBiomechRun ==
    /\ pc = "call"
    /\ LET out == biomech_run(frames, events, biomech, arg)
       IN /\ frames' = out.frames
          /\ biomech' = out.biomech
          /\ ret' = out.summary
    /\ pc' = "done"
    /\ UNCHANGED <<arg, events, decision, risk, cues, ctxRef, raised>>

NextBiomech == CallBiomechRun

SpecBiomech == InitBiomech /\ [][NextBiomech]_vars

\* The frames of the window [UAH, Release] that came without landmarks, the
\* frames the stage filled, and the length of the run of consecutive
\* missing frames around frame idx of the frames as they came.
WindowMissing == MissingFrames(arg.pose, events.uah.frame, events.release.frame)
Filled == {idx \in 0..(Len(frames) - 1) : ~arg.pose[idx + 1].lm /\ frames[idx + 1].lm}
MissingRun(idx) ==
    Cardinality({j \in 0..(Len(arg.pose) - 1) :
        \A k \in Min2(j, idx)..Max2(j, idx) : ~arg.pose[k + 1].lm})

\* C12: a frame without landmarks is filled only if it lies in the window
\* [UAH, Release] in a run of at most MAX_INTERP_GAP consecutive missing
\* frames; when the window holds more than MAX_INTERP_GAP missing frames
\* nothing is filled, biomech.error is 'Arm landmarks insufficient' and no
\* elbow profile is stored.
C12_InterpolationBounded ==
    pc = "done" =>
        /\ \A idx \in Filled :
               /\ idx \in WindowMissing
               /\ MissingRun(idx) <= MAX_INTERP_GAP
        /\ Cardinality(WindowMissing) > MAX_INTERP_GAP =>
               /\ Filled = {}
               /\ frames = arg.pose
               /\ biomech.error = "Arm landmarks insufficient"
               /\ biomech.elbow = Null

\* A window with eight missing frames between two frames with landmarks.
C12_Witness ==
    /\ pc = "done"
    /\ Cardinality(WindowMissing) > MAX_INTERP_GAP
    /\ arg.pose[events.uah.frame + 1].lm
    /\ arg.pose[events.release.frame + 1].lm
    /\ biomech.error = "Arm landmarks insufficient"

\* ==================================================================
\* utils/occlusion.py
\* ==================================================================
\* A frame holds its landmark list as `joints`, each joint with its
\* visibility (units of 0.01) and src, the index of the frame its
\* coordinates were measured in.
VIS_FRAME_THRESHOLD == 20
VIS_JOINT_THRESHOLD == 15

\* statistics.median over the visibilities of the landmarks, doubled.
_median_visibility2x(lm) == Median2x([j \in 1..Len(lm) |-> lm[j].vis])

\* A joint below the threshold takes x, y, z and vis of the previous frame.
_repair_landmarks(prev_lm, curr_lm, vis_threshold) ==
    [j \in 1..Len(curr_lm) |-> IF curr_lm[j].vis < vis_threshold THEN prev_lm[j] ELSE curr_lm[j]]

\* One step of either pass: frame i (from 1) repaired from frame nb.
SmoothStep(out, i, nb) ==
    IF _median_visibility2x(out[i].joints) < 2 * VIS_FRAME_THRESHOLD
    THEN [out EXCEPT ![i] = [out[i] EXCEPT !.joints = out[nb].joints, !.conf = out[nb].conf]]
    ELSE [out EXCEPT ![i] = [out[i] EXCEPT
              !.joints = _repair_landmarks(out[nb].joints, out[i].joints, VIS_JOINT_THRESHOLD)]]

\* for i in range(1, len(out)), from frame i (from 1 here) on.
RECURSIVE ForwardPass(_, _)
ForwardPass(out, i) ==
    IF i > Len(out) THEN out ELSE ForwardPass(SmoothStep(out, i, i - 1), i + 1)

\* for i in range(len(out) - 2, -1, -1), from frame i (from 1 here) down.
RECURSIVE BackwardPass(_, _)
BackwardPass(out, i) ==
    IF i < 1 THEN out ELSE BackwardPass(SmoothStep(out, i, i + 1), i - 1)

\* smooth(frames): the list it returns, or the exception it raises.  A
\* frame whose landmarks are None makes _median_visibility or
\* _repair_landmarks raise TypeError in any sequence of two or more frames.
smooth(fs) ==
    IF Len(fs) = 0 THEN [raises |-> "none", frames |-> fs]
    ELSE IF Len(fs) >= 2 /\ \E i \in 1..Len(fs) : ~fs[i].lm
    THEN [raises |-> "TypeError", frames |-> <<>>]
    ELSE [raises |-> "none", frames |-> BackwardPass(ForwardPass(fs, 2), Len(fs) - 1)]

\* ------------------------------------------------------------------
\* smooth on its own
\* ------------------------------------------------------------------
OccLen == 9

OccJoint(v, f) == [vis |-> v, src |-> f]
\* Frame f as it is tracked: well, with every joint lost, or with one joint lost.
OccGood(f) == [lm |-> TRUE, conf |-> 90, joints |-> <<OccJoint(90, f), OccJoint(90, f), OccJoint(90, f)>>]
OccLow(f) == [lm |-> TRUE, conf |-> 30, joints |-> <<OccJoint(10, f), OccJoint(10, f), OccJoint(10, f)>>]
OccPartial(f) == [lm |-> TRUE, conf |-> 80, joints |-> <<OccJoint(10, f), OccJoint(90, f), OccJoint(90, f)>>]
OccNone(f) == [lm |-> FALSE, conf |-> 0, joints |-> <<>>]

OccFrame(kind, f) ==
    CASE kind = "good" -> OccGood(f)
      [] kind = "low" -> OccLow(f)
      [] kind = "partial" -> OccPartial(f)
      [] OTHER -> OccNone(f)

InitOcclusion ==
    /\ pc = "call"
    /\ \E n \in {1, OccLen} :
       \E kinds \in [1..n -> {"good", "low", "partial"}], m \in {-1, 0, 4} :
          arg = [i \in 1..n |-> OccFrame(IF i - 1 = m THEN "none" ELSE kinds[i], i - 1)]
    /\ ret = Null
    /\ CtxIdle

CallSmooth ==
    /\ pc = "call"
    /\ ret' = smooth(arg)
    /\ pc' = "done"
    /\ UNCHANGED <<arg, ctxVars>>

NextOcclusion == CallSmooth

SpecOcclusion == InitOcclusion /\ [][NextOcclusion]_vars

\* C13: in the frames smooth returns, no joint holds coordinates measured
\* more than a fixed number of frames away (here the interpolation bound
\* MAX_INTERP_GAP): frames of a longer low-visibility run that have no valid
\* frame within the bound keep their own data.
C13_OcclusionRepairBounded ==
    (pc = "done" /\ ret.raises = "none") =>
        \A i \in 1..Len(ret.frames) : \A j \in 1..Len(ret.frames[i].joints) :
            Abs(ret.frames[i].joints[j].src - (i - 1)) <= MAX_INTERP_GAP

\* C14: biomech_stage.run leaves the outputs of the earlier stages as they
\* were: every frame of ctx.pose.frames keeps its landmarks and its
\* confidence, and ctx.events is unchanged.
C14_BiomechLeavesEarlierOutputs ==
    pc = "done" =>
        /\ Len(frames) = Len(arg.pose)
        /\ \A i \in 1..Len(frames) :
               /\ frames[i].lm = arg.pose[i].lm
               /\ frames[i].conf = arg.pose[i].conf
               /\ frames[i] = arg.pose[i]
        /\ events = arg.events

\* ==================================================================
\* utils/landmarks.py: LandmarkMapper
\* ==================================================================
\* A landmark list maps a MediaPipe index to [vis, pt], pt the landmark's
\* coordinates; visibility in units of 0.01.
MapperLeft ==
    [shoulder |-> 11, elbow |-> 13, wrist |-> 15, hip |-> 23,
     knee |-> 25, ankle |-> 27, heel |-> 29, toe |-> 31]
MapperRight ==
    [shoulder |-> 12, elbow |-> 14, wrist |-> 16, hip |-> 24,
     knee |-> 26, ankle |-> 28, heel |-> 30, toe |-> 32]
Primary(hand) == IF hand = "R" THEN MapperRight ELSE MapperLeft

\* _safe_vec(lm, idx, fallback): the fallback only when the visibility is
\* below the threshold and a fallback was given, else the landmark itself.
_safe_vec(lm, idx, fallback) ==
    IF lm[idx].vis < VIS_THRESHOLD /\ fallback # Null THEN fallback ELSE lm[idx].pt

hips_pair(lm) == <<_safe_vec(lm, MapperLeft.hip, Null), _safe_vec(lm, MapperRight.hip, Null)>>
shoulders_pair(lm) ==
    <<_safe_vec(lm, MapperLeft.shoulder, Null), _safe_vec(lm, MapperRight.shoulder, Null)>>

\* vec(lm, key): KeyError for a key the mapper does not know.
vec(lm, hand, key) ==
    IF key \notin DOMAIN Primary(hand) THEN [raises |-> "KeyError", value |-> <<>>]
    ELSE [raises |-> "none", value |-> <<_safe_vec(lm, Primary(hand)[key], Null)>>]

\* ------------------------------------------------------------------
\* The joint accessors on their own
\* ------------------------------------------------------------------
MapperJoints == {11, 12, 13, 14, 23, 24}
MaxPrev == 1

\* The coordinates measured for joint idx in the current frame, and the
\* point age frames back at which it was last tracked well.
CurPt(idx) == [x |-> idx, y |-> 50, z |-> 0]
PrevPt(idx, age) == [x |-> idx, y |-> 50 - age, z |-> 0]

InitMapper ==
    /\ pc = "call"
    /\ \E vis \in [MapperJoints -> {10, 20, 90}] :
       LET lm == [idx \in MapperJoints |-> [vis |-> vis[idx], pt |-> CurPt(idx)]]
       IN \/ \E idx \in {11, 24}, age \in 0..MaxPrev :
                arg = [op |-> "_safe_vec", lm |-> lm, idx |-> idx, hand |-> "R",
                       fallback |-> IF age = 0 THEN Null ELSE PrevPt(idx, age), key |-> None]
          \/ \E hand \in {"L", "R"}, key \in {"shoulder", "elbow", "hip", "nose"} :
                arg = [op |-> "vec", lm |-> lm, idx |-> 0, hand |-> hand,
                       fallback |-> Null, key |-> key]
          \/ \E op \in {"hips_pair", "shoulders_pair"} :
                arg = [op |-> op, lm |-> lm, idx |-> 0, hand |-> "R",
                       fallback |-> Null, key |-> None]
    /\ ret = Null
    /\ CtxIdle

CallAccessor ==
    /\ pc = "call"
    /\ ret' = CASE arg.op = "_safe_vec" ->
                     [raises |-> "none", value |-> <<_safe_vec(arg.lm, arg.idx, arg.fallback)>>]
                [] arg.op = "vec" -> vec(arg.lm, arg.hand, arg.key)
                [] arg.op = "hips_pair" -> [raises |-> "none", value |-> hips_pair(arg.lm)]
                [] OTHER -> [raises |-> "none", value |-> shoulders_pair(arg.lm)]
    /\ pc' = "done"
    /\ UNCHANGED <<arg, ctxVars>>

NextMapper == CallAccessor

SpecMapper == InitMapper /\ [][NextMapper]_vars

\* The joints the call asked for, in the order of the returned points.
AskedJoints ==
    CASE arg.op = "_safe_vec" -> <<arg.idx>>
      [] arg.op = "vec" -> <<Primary(arg.hand)[arg.key]>>
      [] arg.op = "hips_pair" -> <<23, 24>>
      [] OTHER -> <<11, 12>>

\* C15: an accessor returns the current coordinates of a joint only when
\* its visibility is at least vis_threshold; below the threshold it returns
\* the previously valid point or null, never the low-visibility landmark.
C15_AccessorsHideLowVisibility ==
    (pc = "done" /\ ret.raises = "none") =>
        \A k \in 1..Len(ret.value) :
            arg.lm[AskedJoints[k]].vis < VIS_THRESHOLD =>
                /\ ret.value[k] # arg.lm[AskedJoints[k]].pt
                /\ ret.value[k] \in {Null, arg.fallback}

\* The thresholds the hip-shoulder-mismatch calculator derives from I.
HsmThresholds(I) ==
    <<interpolate100(T_SPIN_SEP_CHANGE, T_PACE_SEP_CHANGE, I),
      interpolate100(T_SPIN_JERK, T_PACE_JERK, I)>>

\* The inputs of the analysis of the same frames and hand with the other
\* bowler_type.
OtherBowlerType == [arg EXCEPT !.bowler_type = IF @ = "pace" THEN "spin" ELSE "pace"]

\* C16: the intensity I given to the risk calculators is selected by
\* bowler_type: the analysis of the same frames and hand with the other
\* bowler_type runs the calculators with a different I and so with
\* different thresholds.
C16_IntensityFollowsBowlerType ==
    pc = "done" =>
        /\ RiskIntensity(OtherBowlerType) # RiskIntensity(arg)
        /\ HsmThresholds(RiskIntensity(OtherBowlerType)) # HsmThresholds(RiskIntensity(arg))

\* ------------------------------------------------------------------
\* aggregate_risks when a finding is added to the breakdown
\* ------------------------------------------------------------------
OverallRank(o) == CASE o = "Low" -> 0 [] o = "Medium" -> 1 [] o = "High" -> 2

\* The list b with f inserted after its first pos entries.
InsertAt(b, pos, f) == SubSeq(b, 1, pos) \o <<f>> \o SubSeq(b, pos + 1, Len(b))

\* C17: for the breakdown b just aggregated and any finding f, inserted
\* at any position, aggregate_risks of the longer list is not lower than
\* aggregate_risks(b) in the order Low < Medium < High, and it is High when
\* f has level HIGH.
C17_AddingFindingNeverLowers ==
    pc = "done" =>
        \A f \in AggEntries : \A pos \in 0..Len(arg) :
            LET more == aggregate_risks(InsertAt(arg, pos, f))
            IN /\ OverallRank(more) >= OverallRank(ret)
               /\ ("level" \in DOMAIN f /\ f.level = "HIGH") => more = "High"

\* A breakdown aggregated to Medium that a HIGH finding in front raises to
\* High and a LOW finding at the end leaves at Medium.
C17_Witness ==
    /\ pc = "done"
    /\ Len(arg) = MaxFindings
    /\ ret = "Medium"
    /\ aggregate_risks(InsertAt(arg, 0, [id |-> "R", level |-> "HIGH"])) = "High"
    /\ aggregate_risks(InsertAt(arg, Len(arg), [id |-> "R", level |-> "LOW"])) = "Medium"

\* The zone primitives stored in ctx.biomech by hip_alignment,
\* shoulder_hip_separation and backfoot_landing_angle.
StoredZonePrimitives ==
    {p \in {biomech.hip, biomech.shoulder_hip, biomech.backfoot} : p # Null}

\* C18: every zone primitive stored by hip_alignment,
\* shoulder_hip_separation and backfoot_landing_angle has a confidence
\* between 0 and 1, for every per-frame tracking confidence between 0 and 1.
C18_ZoneConfidenceInUnitRange ==
    pc \notin {"events_stage", "biomech_stage"} =>
        \A p \in StoredZonePrimitives : 0 <= p.confidence /\ p.confidence <= 1

\* C19: in every elbow profile stored by biomech_stage.run the reported
\* extension_deg is at least 0 and not larger than extension_raw_deg.
C19_ExtensionWithinRaw ==
    (pc = "done" /\ biomech.elbow # Null) =>
        /\ 0 <= biomech.elbow.extension_deg
        /\ biomech.elbow.extension_deg <= biomech.elbow.extension_raw_deg

\* C20: every frame index in the window of a finding lies inside the
\* analysed sequence, 0 <= index <= len(frames) - 1, wherever FFC and
\* Release are (also with Release fewer than 20 frames from the end).
C20_WindowInsideSequence ==
    (pc = "done" /\ "window" \in DOMAIN ret) =>
        \A k \in 1..Len(ret.window) :
            0 <= ret.window[k] /\ ret.window[k] <= Len(arg.frames) - 1

\* ------------------------------------------------------------------
\* The alignment primitives on their own, as biomech_stage.run calls them
\* ------------------------------------------------------------------
PrimLen == 6

PrimitiveOps ==
    {"hip_alignment", "shoulder_alignment", "shoulder_hip_separation", "backfoot_landing_angle"}

InitPrimitive ==
    /\ pc = "call"
    /\ ret = Null
    /\ \E mask \in SUBSET (0..(PrimLen - 1)), heel \in HeelCurves(PrimLen) :
          frames = Masked(PipeFrames(PrimLen,
                       [ext |-> Flat(PrimLen, 150), elev |-> Flat(PrimLen, 0),
                        rot |-> Flat(PrimLen, 0), ankle |-> Dips(PrimLen, 4),
                        knee |-> Flat(PrimLen, 170), hipx |-> Flat(PrimLen, 50),
                        sh_img |-> Flat(PrimLen, 0), heel |-> heel,
                        hip_xz |-> 20, sh_xz |-> 60, foot_xz |-> 50], -1, 90), mask)
    /\ \E op \in PrimitiveOps, hand \in {"L", "R"} : arg = [op |-> op, hand |-> hand]
    /\ \E f \in -1..(PrimLen - 1), u \in {-1, 2, PrimLen - 1} :
          events = [release |-> Event(PrimLen - 1, 90),
                    uah |-> IF u < 0 THEN Null ELSE Event(u, 90),
                    ffc |-> IF f < 0 THEN Null ELSE Event(f, 90),
                    bfc |-> IF f < 0 THEN Null ELSE Event(Max2(0, f - 3), 90),
                    error |-> None]
    /\ biomech = NoBiomech
    /\ decision = EmptyDict
    /\ risk = Null
    /\ cues = <<>>
    /\ ctxRef = "ctx"
    /\ raised = "none"

\* hip_alignment_run(ctx), shoulder_alignment_run(ctx),
\* shoulder_hip_separation_run(ctx) or backfoot_landing_run(ctx); `raised`
\* holds the exception that leaves the call.
CallPrimitive ==
    /\ pc = "call"
    /\ \/ /\ arg.op = "hip_alignment"
          /\ biomech' = hip_alignment_run(frames, events, biomech, arg.hand)
          /\ raised' = "none"
       \/ /\ arg.op = "shoulder_alignment"
          /\ biomech' = shoulder_alignment_run(frames, events, biomech)
          /\ raised' = "none"
       \/ /\ arg.op = "shoulder_hip_separation"
          /\ biomech' = shoulder_hip_separation_run(frames, events, biomech, arg.hand)
          /\ raised' = "none"
       \/ /\ arg.op = "backfoot_landing_angle"
          /\ IF BackfootRaises(frames, events)
             THEN biomech' = biomech /\ raised' = "TypeError"
             ELSE /\ biomech' = backfoot_landing_run(frames, events, biomech, arg.hand)
                  /\ raised' = "none"
    /\ pc' = "done"
    /\ UNCHANGED <<arg, ret, frames, events, decision, risk, cues, ctxRef>>

NextPrimitive == CallPrimitive

SpecPrimitive == InitPrimitive /\ [][NextPrimitive]_vars

\* The anchor event of the primitive that was called, and the primitive it
\* stores.
PrimitiveAnchor == IF arg.op = "shoulder_alignment" THEN events.uah ELSE events.ffc
PrimitiveStored ==
    CASE arg.op = "hip_alignment" -> biomech.hip
      [] arg.op = "shoulder_alignment" -> biomech.shoulder
      [] arg.op = "shoulder_hip_separation" -> biomech.shoulder_hip
      [] OTHER -> biomech.backfoot

\* The anchor is missing, or its frame has no landmarks, or (back foot) no
\* frame of the search window before FFC has landmarks.
AnchorUnusable ==
    \/ PrimitiveAnchor = Null
    \/ ~frames[PrimitiveAnchor.frame + 1].lm
    \/ /\ arg.op = "backfoot_landing_angle"
       /\ \A i \in 1..(PrimitiveAnchor.frame - 1) : ~frames[i + 1].lm

\* C21: each alignment primitive returns without raising and leaves its
\* primitive null whenever its anchor event is missing or the landmarks of
\* the anchor frame or of the frames of its search window are null.
C21_PrimitivesDegradeToNull ==
    (pc = "done" /\ AnchorUnusable) => raised = "none" /\ PrimitiveStored = Null

\* The argument is a sequence with landmarks throughout whose knee angle is
\* 170 at FFC, 155 at Release and 90 ten frames after Release.
KneeFollowThroughScenario ==
    /\ arg.release + 10 < Len(arg.frames)
    /\ \A i \in 1..Len(arg.frames) : arg.frames[i].lm
    /\ arg.frames[arg.ffc + 1].knee = 170
    /\ arg.frames[arg.release + 1].knee = 155
    /\ arg.frames[arg.release + 11].knee = 90

\* C22: a sequence with knee angle 170 at FFC, 155 at Release and 90 ten
\* frames after Release yields a FRONT_KNEE_COLLAPSE finding of level LOW.
C22_FollowThroughFoldIsLow ==
    (pc = "done" /\ KneeFollowThroughScenario) =>
        ret.risk_id = "FRONT_KNEE_COLLAPSE" /\ ret.level = "LOW"


\* ------------------------------------------------------------------
\* FrontFootBrakingRisk.compute on its own.
\* ------------------------------------------------------------------
BrakeLen == 16
HFrame(x) == [lm |-> TRUE, hipx |-> x]
\* The hip centre advances by `fast` per frame up to k frames after FFC, by
\* `mid` per frame from there to Release and by `slow` per frame afterwards.
HipRun(n, ffc, k, release, fast, mid, slow) ==
    [i \in 1..n |->
        LET f == i - 1
        IN HFrame(fast * Min2(f, ffc + k)
                  + mid * (Min2(Max2(f, ffc + k), release) - (ffc + k))
                  + slow * (Max2(f, release) - release))]

InitBraking ==
    /\ pc = "call"
    /\ ret = Null
    /\ CtxIdle
    /\ \E ffc \in {0, 1}, k \in {1, 2}, gap \in {4, 9}, fps \in {Fps, 2 * Fps},
          fast \in {12, 25, 30}, mid \in {0, 5, 8}, slow \in {0, 5} :
          arg = [frames |-> HipRun(BrakeLen, ffc, k, ffc + gap, fast, mid, Min2(mid, slow)),
                 ffc |-> ffc, release |-> ffc + gap, fps |-> fps]

CallBrakingCompute ==
    /\ pc = "call"
    /\ ret' = FrontFootBraking_compute(arg.frames, arg.ffc, arg.release, arg.fps)
    /\ pc' = "done"
    /\ UNCHANGED <<arg, ctxVars>>

NextBraking == CallBrakingCompute

SpecBraking == InitBraking /\ [][NextBraking]_vars

\* The hip-x velocity (np.gradient over the trajectory, units per second)
\* drops by more than 6 between two frames of FFC..FFC+3.
SharpDropAtFfc ==
    LET V == Grad2([i \in 1..Len(arg.frames) |-> arg.frames[i].hipx])
    IN \E a \in arg.ffc..(arg.ffc + 3) : \E b \in (a + 1)..(arg.ffc + 3) :
          (V[a + 1] - V[b + 1]) * arg.fps > 6 * 200

\* C23: every hip-x trajectory whose velocity drops by more than 6 units/s
\* within 3 frames of FFC gets a FRONT_FOOT_BRAKING finding of level HIGH.
C23_SharpDropIsHigh ==
    (pc = "done" /\ SharpDropAtFfc) =>
        IF ret = Null THEN FALSE
        ELSE ret.risk_id = "FRONT_FOOT_BRAKING" /\ ret.level = "HIGH"


\* ------------------------------------------------------------------
\* Anchor indices of events_stage.run against ctx.pose.frames (SpecEvents)
\* ------------------------------------------------------------------
\* The list the detectors of events_stage.run are given for ctx.pose.frames
\* = frames, and the position in ctx.pose.frames of its element k (from 0).
DetectorFrames ==
    LET filtered == SelectSeq(frames, _is_valid_frame)
    IN IF Len(filtered) >= 5 THEN filtered ELSE frames
PoseIndexOf(k) ==
    IF Len(SelectSeq(frames, _is_valid_frame)) >= 5
    THEN CHOOSE p \in 0..(Len(frames) - 1) :
             /\ _is_valid_frame(frames[p + 1])
             /\ Cardinality({q \in 0..(p - 1) : _is_valid_frame(frames[q + 1])}) = k
    ELSE k
\* The stored anchors that a detector found (the others are fallbacks).
DetectedAnchors ==
    {events.release, events.ffc}
    \cup (IF detect_uah_c2(DetectorFrames, events.release.frame) = events.uah
          THEN {events.uah} ELSE {})
    \cup (IF detect_bfc(DetectorFrames, events.ffc.frame) = events.bfc
          THEN {events.bfc} ELSE {})

\* C24: the frame index of every anchor stored by events_stage.run is the
\* position in ctx.pose.frames of the frame at which the detector found the
\* event, also when some frames fail the visibility filter.
C24_AnchorsIndexPoseFrames ==
    (pc # "events" /\ AllAnchors) =>
        \A a \in DetectedAnchors : a.frame = PoseIndexOf(a.frame)


\* ------------------------------------------------------------------
\* The hip-shoulder mismatch block of biomech_stage.run on its own: the two
\* angle series are built for BFC..FFC and handed to the calculator.
\* ------------------------------------------------------------------
HsmLen == 8
\* A frame with landmarks whose shoulder line is at s and hip line at h degrees.
TFrame(s, h) == [lm |-> TRUE, sh_img |-> s, hip_img |-> h]
HsmShoulderCurves(n) == {Ramp(n, 5), Pulse(n, 1, 0, 30), Tent(n, 4, 40, 10)}
HsmHipCurves(n) == {Flat(n, 0), Ramp(n, 2)}

InitHsm ==
    /\ pc = "call"
    /\ ret = Null
    /\ CtxIdle
    /\ \E sh \in HsmShoulderCurves(HsmLen), hip \in HsmHipCurves(HsmLen),
          bfc \in 0..3, gap \in 1..4 :
          arg = [frames |-> [i \in 1..HsmLen |-> TFrame(sh[i], hip[i])],
                 bfc |-> bfc, ffc |-> bfc + gap, fps |-> Fps]

\* ret.separation is the series the calculator evaluates (ret.evaluated is
\* FALSE when it returns before building one), ret.hsm what it returns.
CallHsmBlock ==
    /\ pc = "call"
    /\ LET pf == arg.frames
           hip == compute_pair_angle_series(pf, arg.bfc, arg.ffc,
                                            [i \in 1..Len(pf) |-> pf[i].hip_img])
           sh == compute_pair_angle_series(pf, arg.bfc, arg.ffc,
                                           [i \in 1..Len(pf) |-> pf[i].sh_img])
           evaluated == ~(arg.ffc <= arg.bfc + 2)
       IN ret' = [evaluated |-> evaluated,
                  separation |-> IF evaluated
                                 THEN HsmSeparation(hip, sh, arg.bfc, arg.ffc) ELSE <<>>,
                  hsm |-> HipShoulderMismatch_compute(hip, sh, arg.bfc, arg.ffc, arg.fps,
                                                      RISK_INTENSITY)]
    /\ pc' = "done"
    /\ UNCHANGED <<arg, ctxVars>>

NextHsm == CallHsmBlock

SpecHsm == InitHsm /\ [][NextHsm]_vars

\* The shoulder-minus-hip angles of the frames BFC..FFC-1.
SeparationBfcToFfc ==
    [k \in 1..(arg.ffc - arg.bfc) |->
        arg.frames[arg.bfc + k].sh_img - arg.frames[arg.bfc + k].hip_img]

\* C25: for every BFC < FFC the separation series that
\* HipShoulderMismatchRisk.compute evaluates consists of the
\* shoulder-minus-hip angles of exactly the frames BFC..FFC-1, one sample
\* per frame, whatever BFC is.
C25_SeparationCoversBfcToFfc ==
    (pc = "done" /\ arg.bfc < arg.ffc /\ ret.evaluated) =>
        ret.separation = SeparationBfcToFfc


\* ------------------------------------------------------------------
\* detect_uah_c2 on its own
\* ------------------------------------------------------------------
UahLen == 14
\* The signal stays at 0 up to frame q and then rises by `slope` per frame.
RampFrom(n, q, slope) == [i \in 1..n |-> slope * Max2(0, i - 1 - q)]

InitUah ==
    /\ pc = "call"
    /\ ret = Null
    /\ CtxIdle
    /\ \E p \in {0, 1, 6, UahLen - 2}, e \in {1, 6, UahLen - 2, UahLen},
          q \in {0, UahLen - 3, UahLen}, m \in {-1, 3},
          rel_idx \in {2, UahLen - 4, UahLen - 1, UahLen} :
          arg = [frames |-> EvFrames(UahLen, Tent(UahLen, p, 170, 10),
                                     StepAt(UahLen, e, 0, 10), RampFrom(UahLen, q, 5),
                                     Flat(UahLen, 50), m, -1),
                 rel_idx |-> rel_idx]

CallDetectUah ==
    /\ pc = "call"
    /\ ret' = detect_uah_c2(arg.frames, arg.rel_idx)
    /\ pc' = "done"
    /\ UNCHANGED <<arg, ctxVars>>

NextUah == CallDetectUah

SpecUah == InitUah /\ [][NextUah]_vars

\* The index of the minimum of the smoothed flexion curve over [0, rel_idx).
FlexMinIdx == ArgMin(Prefix(_flexion_list(arg.frames), arg.rel_idx))

\* C26: whenever detect_uah_c2(frames, mapper, rel_idx) returns an event,
\* its frame f satisfies 0 <= f < rel_idx and |f - a| <= 8, where a is the
\* index of the minimum of the smoothed flexion curve over [0, rel_idx).
C26_UahWithinWindowOfFlexMin ==
    (pc = "done" /\ ret # Null) =>
        /\ 0 <= ret.frame /\ ret.frame < arg.rel_idx
        /\ Abs(ret.frame - FlexMinIdx) <= 8

\* An event was returned at the edge of the correction window: the combined
\* index lay more than 8 frames from the flexion minimum and was clipped.
C26_Witness ==
    /\ pc = "done" /\ ret # Null
    /\ Abs(ret.frame - FlexMinIdx) = 8
    /\ detect_uah_c2_unclipped(arg.frames, arg.rel_idx).frame # ret.frame


\* C27: the UAH stored by events_stage.run lies inside the bounded search
\* window before Release: 1 <= Release.frame - UAH.frame <= 35 for every
\* sequence.
C27_UahWithinWindowBeforeRelease ==
    (pc # "events" /\ AllAnchors) =>
        /\ 1 <= events.release.frame - events.uah.frame
        /\ events.release.frame - events.uah.frame <= 35


\* ------------------------------------------------------------------
\* Completeness of detect_ffc_reverse (SpecFfcReverse)
\* ------------------------------------------------------------------
\* Frames 2..anchor contain at least MIN_STABLE consecutive grounded frames.
GroundedRunExists ==
    \E s \in 2..(arg.anchor_idx - MIN_STABLE + 1) :
        \A f \in s..(s + MIN_STABLE - 1) : GroundedAt(f)

\* C28: detect_ffc_reverse with anchor > min_stable + 2 returns an event
\* whenever frames 2..anchor contain at least min_stable consecutive
\* grounded frames, and None only when no such run exists; also when the run
\* reaches down to frame 2 or is bounded below by a frame without landmarks.
C28_ReverseFfcFindsEveryRun ==
    (pc = "done" /\ arg.anchor_idx > MIN_STABLE + 2) =>
        (ret # Null <=> GroundedRunExists)


\* ------------------------------------------------------------------
\* Which leg the foot-contact detectors and the knee calculator read
\* ------------------------------------------------------------------
\* MediaPipe indices of ffc_reverse.py.
LEFT_ANKLE == 27
RIGHT_ANKLE == 28
LEFT_HEEL == 29
RIGHT_HEEL == 30

\* The landmark indices each component reads in a frame, for a bowling hand.
\* detect_ffc_reverse: the ankle and heel opposite the bowling arm.
ReverseFfcJoints(hand) ==
    IF hand = "R" THEN {LEFT_ANKLE, LEFT_HEEL} ELSE {RIGHT_ANKLE, RIGHT_HEEL}
\* detect_ffc and detect_bfc: ankle = mapper.primary["ankle"].
DetectFfcJoints(hand) == {Primary(hand).ankle}
DetectBfcJoints(hand) == {Primary(hand).ankle}
\* FrontKneeCollapseRisk.compute: mapper.vec(lm, "hip" / "knee" / "ankle").
KneeCollapseJoints(hand) == {Primary(hand).hip, Primary(hand).knee, Primary(hand).ankle}

LegIndices == 23..30
LegOps == {"detect_ffc_reverse", "detect_ffc", "detect_bfc", "front_knee_collapse"}

InitLegs ==
    /\ pc = "call"
    /\ ret = Null
    /\ CtxIdle
    /\ \E hand \in {"L", "R"}, op \in LegOps, y \in [LegIndices -> {10, 50}] :
          arg = [op |-> op, hand |-> hand, lm |-> y]

\* One frame is handed to the component: ret.reads are the indices it looks
\* up in the landmark list, ret.values what it finds there.
ReadFrame ==
    /\ pc = "call"
    /\ LET reads == CASE arg.op = "detect_ffc_reverse" -> ReverseFfcJoints(arg.hand)
                      [] arg.op = "detect_ffc" -> DetectFfcJoints(arg.hand)
                      [] arg.op = "detect_bfc" -> DetectBfcJoints(arg.hand)
                      [] OTHER -> KneeCollapseJoints(arg.hand)
       IN ret' = [reads |-> reads, values |-> [i \in reads |-> arg.lm[i]]]
    /\ pc' = "done"
    /\ UNCHANGED <<arg, ctxVars>>

NextLegs == ReadFrame

SpecLegs == InitLegs /\ [][NextLegs]_vars

\* The leg joints of the bowling-hand side and of the opposite (front) side.
LegJointsOf(m) == {m.hip, m.knee, m.ankle, m.heel, m.toe}
BowlingSideJoints(hand) == LegJointsOf(IF hand = "R" THEN MapperRight ELSE MapperLeft)
FrontLegJoints(hand) == LegJointsOf(IF hand = "R" THEN MapperLeft ELSE MapperRight)

\* C29: for both hands, FFC detection and the front-knee-collapse
\* calculator read the joints of the front leg (opposite the bowling hand)
\* and back-foot detection reads the bowling-hand side.
C29_FrontLegReadEverywhere ==
    pc = "done" =>
        /\ arg.op \in {"detect_ffc_reverse", "detect_ffc", "front_knee_collapse"}
              => ret.reads \subseteq FrontLegJoints(arg.hand)
        /\ arg.op = "detect_bfc" => ret.reads \subseteq BowlingSideJoints(arg.hand)


\* ------------------------------------------------------------------
\* The trunk-lean entry of the breakdown (SpecBiomech)
\* ------------------------------------------------------------------
BreakdownEntries(id) ==
    {ret.breakdown[i] : i \in {j \in 1..Len(ret.breakdown) : ret.breakdown[j].id = id}}
\* Front-foot braking, hip-shoulder mismatch or front-knee collapse is
\* reported at MEDIUM or HIGH.
OtherCalculatorSupports ==
    \E id \in {"FRONT_FOOT_BRAKING", "HIP_SHOULDER_MISMATCH", "FRONT_KNEE_COLLAPSE"} :
        \E e \in BreakdownEntries(id) : e.level \in {"MEDIUM", "HIGH"}

\* C30: the LATERAL_TRUNK_LEAN finding keeps its computed level (MEDIUM or
\* HIGH) whenever at least one of FFB, HSM and FNC reports MEDIUM or HIGH,
\* and is downgraded to LOW only when none of the three does.
C30_TrunkLeanKeptWhenSupported ==
    (pc = "done" /\ ret # Null) =>
        \A e \in BreakdownEntries("LATERAL_TRUNK_LEAN") :
            e.level = IF OtherCalculatorSupports THEN arg.jerk_grade ELSE "LOW"

====
